---------------------------- MODULE Spec2Model ----------------------------
(***************************************************************************)
(* A model of pg_seldump's dump planner and orchestrator                   *)
(* (seldump/dumper.py, seldump/dumprule.py, seldump/dbobjects.py,          *)
(* seldump/query.py, seldump/cli.py).                                      *)
(*                                                                         *)
(* The state is the Dumper: the schema graph (db), the rules, the matches  *)
(* dictionary, the position of perform_dump (pc), the exception that ended *)
(* the run (err), the local list and loop index of apply_actions (objs, i) *)
(* and the calls received by the writer (wlog).  The table contents (data) *)
(* are the rows the generated COPY statements are run on; walked records   *)
(* the tables the foreign-key walker explored, and walks the tables each   *)
(* top-level call of the walker explored, in the order of exploration;     *)
(* plans holds the outcome of every call of plan_dump before the current   *)
(* one.                                                                    *)
(***************************************************************************)
EXTENDS Integers, Sequences, FiniteSets, TLC

VARIABLES db, rules, data, matches, walked, walks, plans, pc, err, objs, i, wlog

vars == <<db, rules, data, matches, walked, walks, plans, pc, err, objs, i, wlog>>

-----------------------------------------------------------------------------
(* Bounds of the model.                                                    *)

\* most foreign keys of a schema of the foreign-key family
MaxFkeys == 3
\* most rules of a rule set of the matching family
MaxRules == 3
\* rows of every table of the data family; the tables of the self-reference
\* family have one row more
NRows == 2
\* most calls of plan_dump on one Dumper
MaxPlans == 2
\* the rows of every table of the schema being dumped
Rows == data.rows

-----------------------------------------------------------------------------
(* Python values.                                                          *)

\* Python's None, where the other values are strings
None == "<None>"

\* a missing query node (None in a where, a query, a statement)
NoNode == [node |-> "None"]

ACTION_DUMP == "dump"
ACTION_SKIP == "skip"
ACTION_ERROR == "error"
ACTION_REFERENCED == "ref"
ACTION_UNKNOWN == "unknown"

KIND_TABLE == "table"
KIND_PART_TABLE == "partitioned table"
KIND_SEQUENCE == "sequence"
KIND_MATVIEW == "materialized view"

\* isinstance(obj, Table): PartitionedTable is a subclass of Table
IsTable(obj) == obj.kind \in {KIND_TABLE, KIND_PART_TABLE}
IsSequence(obj) == obj.kind = KIND_SEQUENCE
IsMaterializedView(obj) == obj.kind = KIND_MATVIEW

\* the elements of a sequence
Range(s) == {s[k] : k \in DOMAIN s}

\* the subsequence of s of the elements satisfying Test, in order
RECURSIVE SelectIdx(_, _)
SelectIdx(s, keep) ==
    IF s = <<>> THEN <<>>
    ELSE LET rest == SelectIdx(Tail(s), keep)
         IN  IF Head(s) \in keep THEN <<Head(s)>> \o rest ELSE rest

-----------------------------------------------------------------------------
(* The schema graph.  An object's oid is its position in db.objs, which is *)
(* the iteration order of the Database.                                    *)

Oids == DOMAIN db.objs
Obj(oid) == db.objs[oid]
TableOids == {o \in Oids : IsTable(Obj(o))}
SequenceOids == {o \in Oids : IsSequence(Obj(o))}
FkeyIds == DOMAIN db.fkeys
Fkey(k) == db.fkeys[k]

\* the oids in iteration order
RECURSIVE Upto(_)
Upto(n) == IF n = 0 THEN <<>> ELSE Append(Upto(n - 1), n)
DbIter == Upto(Len(db.objs))

\* Table.fkeys: the outbound foreign keys of a table, in the order added
table_fkeys(t) == SelectIdx(Upto(Len(db.fkeys)), {k \in FkeyIds : Fkey(k).table_oid = t})
\* Table.ref_fkeys: the inbound foreign keys of a table
table_ref_fkeys(t) == SelectIdx(Upto(Len(db.fkeys)), {k \in FkeyIds : Fkey(k).ftable_oid = t})
\* Table.get_column
get_column(t, col) == IF col \in Range(Obj(t).columns) THEN col ELSE None

\* Database.get_tables_using_sequence: the (table, column) pairs whose
\* default draws from the sequence, in the order recorded
get_tables_using_sequence(s) ==
    SelectIdx(Upto(Len(db.seq_deps)),
              {k \in DOMAIN db.seq_deps : db.seq_deps[k].seq_oid = s})

-----------------------------------------------------------------------------
(* Rules (DumpRule) and matches (RuleMatch).                               *)
(* A compiled regular expression is modelled by the set of strings that    *)
(* re.match accepts; names_re and schemas_re hold <<>> for None and <<S>>  *)
(* for a pattern accepting exactly the strings of S.                       *)

\* DumpRule.score with a names regex weighing as much as a set of names
score_regex_as_names(rule) ==
    rule.adjust_score
    + (IF rule.names # {} THEN 1000 ELSE 0)
    + (IF rule.names_re # <<>> THEN 1000 ELSE 0)
    + (IF rule.schemas # {} THEN 100 ELSE 0)
    + (IF rule.schemas_re # <<>> THEN 50 ELSE 0)
    + (IF rule.kinds # {} THEN 10 ELSE 0)

\* DumpRule.score
score(rule) ==
    rule.adjust_score
    + (IF rule.names # {} THEN 1000 ELSE 0)
    + (IF rule.names_re # <<>> THEN 500 ELSE 0)
    + (IF rule.schemas # {} THEN 100 ELSE 0)
    + (IF rule.schemas_re # <<>> THEN 50 ELSE 0)
    + (IF rule.kinds # {} THEN 10 ELSE 0)

\* DumpRule.match
match(rule, obj) ==
    /\ ~(rule.names # {} /\ obj.name \notin rule.names)
    /\ ~(rule.names_re # <<>> /\ obj.name \notin rule.names_re[1])
    /\ ~(rule.schemas # {} /\ obj.schema \notin rule.schemas)
    /\ ~(rule.schemas_re # <<>> /\ obj.schema \notin rule.schemas_re[1])
    /\ ~(rule.kinds # {} /\ obj.kind \notin rule.kinds)

\* the keys of a replace mapping, a sequence of <<column, expression>> pairs
\* in the insertion order of the dict
ReplaceKeys(replace) == {replace[k][1] : k \in DOMAIN replace}
\* replace[col]
ReplaceExpr(replace, col) ==
    replace[CHOOSE k \in DOMAIN replace : replace[k][1] = col][2]

\* RuleMatch.__init__
RuleMatch(action) ==
    [action |-> action, rule |-> None, no_columns |-> <<>>, replace |-> <<>>,
     filter |-> None, referenced_by |-> <<>>, query |-> NoNode,
     import_statement |-> NoNode, copy_statement |-> NoNode, errors |-> <<>>]

\* RuleMatch.from_rule; r is the position of the rule in Dumper.rules
from_rule(r) ==
    LET rule == rules[r]
        rv == [RuleMatch(rule.action) EXCEPT !.no_columns = rule.no_columns,
                                             !.replace = rule.replace,
                                             !.filter = rule.filter]
    IN  IF rule.action = ACTION_ERROR
        THEN [rv EXCEPT !.errors = <<<<"the object matches an error rule", None>>>>]
        ELSE rv

\* list.sort(key=attrgetter("score"), reverse=True) on a list of rule
\* positions: a stable sort, so equal scores keep their order
RECURSIVE InsertByScore(_, _)
InsertByScore(r, sorted) ==
    IF sorted = <<>> THEN <<r>>
    ELSE IF score(rules[Head(sorted)]) >= score(rules[r])
         THEN <<Head(sorted)>> \o InsertByScore(r, Tail(sorted))
         ELSE <<r>> \o sorted

\* the matching rules left in the order of Dumper.rules
KeptInOrder(rs) == rs

RECURSIVE SortByScore(_)
SortByScore(rs) ==
    IF rs = <<>> THEN <<>>
    ELSE LET n == Len(rs)
         IN  InsertByScore(rs[n], SortByScore(SubSeq(rs, 1, n - 1)))

\* the rules matching an object, in the order of Dumper.rules
MatchingRules(obj) ==
    SelectIdx(Upto(Len(rules)), {r \in DOMAIN rules : match(rules[r], obj)})

\* get_match consulting the rules first: an object of an extension with no
\* dump condition is skipped only when no rule matches it
get_match_rules_first(obj) ==
    IF MatchingRules(obj) = <<>>
    THEN IF obj.extension # None /\ obj.extcondition = None
         THEN [raised |-> None, match |-> RuleMatch(ACTION_SKIP)]
         ELSE [raised |-> None, match |-> RuleMatch(ACTION_UNKNOWN)]
    ELSE IF Len(MatchingRules(obj)) > 1
            /\ score(rules[SortByScore(MatchingRules(obj))[1]])
                  = score(rules[SortByScore(MatchingRules(obj))[2]])
    THEN [raised |-> "ConfigError", match |-> RuleMatch(ACTION_UNKNOWN)]
    ELSE [raised |-> None, match |-> from_rule(SortByScore(MatchingRules(obj))[1])]

\* Dumper.get_match: [raised, match]
get_match(obj) ==
    IF obj.extension # None /\ obj.extcondition = None
    THEN [raised |-> None, match |-> RuleMatch(ACTION_SKIP)]
    ELSE LET sorted == SortByScore(MatchingRules(obj))
         IN  IF sorted = <<>>
             THEN [raised |-> None, match |-> RuleMatch(ACTION_UNKNOWN)]
             ELSE IF Len(sorted) > 1
                     /\ score(rules[sorted[1]]) = score(rules[sorted[2]])
                  THEN [raised |-> "ConfigError", match |-> RuleMatch(ACTION_UNKNOWN)]
                  ELSE [raised |-> None, match |-> from_rule(sorted[1])]


-----------------------------------------------------------------------------
(* find_matches: matching, foreign-key closure (Pass A), sequence closure  *)
(* (Pass B).                                                               *)

\* self.matches.clear() leaving the dictionary as it is
matches_kept(m) == m

\* self.matches.clear()
matches_clear(m) == <<>>

\* the first loop of find_matches over the objects oids, on the matches m:
\* [m, raised].  The assertion fails on an object that has a match already,
\* and the ConfigError of get_match ends the loop
RECURSIVE MatchLoop(_, _)
MatchLoop(oids, m) ==
    IF oids = <<>> THEN [m |-> m, raised |-> None]
    ELSE IF Head(oids) \in DOMAIN m THEN [m |-> m, raised |-> "AssertionError"]
    ELSE IF get_match(Obj(Head(oids))).raised # None
    THEN [m |-> m, raised |-> get_match(Obj(Head(oids))).raised]
    ELSE MatchLoop(Tail(oids), Append(m, get_match(Obj(Head(oids))).match))

RECURSIVE _add_referred_tables(_, _)
RECURSIVE FollowFkeys(_, _)

\* the loop over table.fkeys without the recursive call on the referred table
RECURSIVE FollowFkeysNoRecursion(_, _)
FollowFkeysNoRecursion(fkeys, st) ==
    IF fkeys = <<>> THEN st
    ELSE LET fkey == Head(fkeys)
             f == Fkey(fkey).ftable_oid
             fmatch == st.m[f]
         IN  IF fmatch.action \notin {ACTION_UNKNOWN, ACTION_REFERENCED, ACTION_DUMP}
             THEN FollowFkeysNoRecursion(Tail(fkeys), st)
             ELSE FollowFkeysNoRecursion(
                      Tail(fkeys),
                      [st EXCEPT !.m[f].action =
                                     IF @ = ACTION_UNKNOWN THEN ACTION_REFERENCED ELSE @,
                                 !.m[f].referenced_by =
                                     IF fkey \in Range(@) THEN @ ELSE Append(@, fkey)])

\* the loop over table.fkeys navigating the tables with action skip or
\* error like the others
RECURSIVE FollowFkeysThroughTerminal(_, _)
FollowFkeysThroughTerminal(fkeys, st) ==
    IF fkeys = <<>> THEN st
    ELSE FollowFkeysThroughTerminal(
             Tail(fkeys),
             _add_referred_tables(
                 Fkey(Head(fkeys)).ftable_oid,
                 [st EXCEPT !.m[Fkey(Head(fkeys)).ftable_oid].action =
                                IF @ = ACTION_UNKNOWN THEN ACTION_REFERENCED ELSE @,
                            !.m[Fkey(Head(fkeys)).ftable_oid].referenced_by =
                                IF Head(fkeys) \in Range(@) THEN @
                                ELSE Append(@, Head(fkeys))]))

\* the loop over table.fkeys with a seen set holding only the tables of the
\* current path: the tables added by a recursive call are forgotten on return
RECURSIVE FollowFkeysSeenPerPath(_, _)
FollowFkeysSeenPerPath(fkeys, st) ==
    IF fkeys = <<>> THEN st
    ELSE IF st.m[Fkey(Head(fkeys)).ftable_oid].action
                \notin {ACTION_UNKNOWN, ACTION_REFERENCED, ACTION_DUMP}
    THEN FollowFkeysSeenPerPath(Tail(fkeys), st)
    ELSE FollowFkeysSeenPerPath(
             Tail(fkeys),
             [_add_referred_tables(
                  Fkey(Head(fkeys)).ftable_oid,
                  [st EXCEPT !.m[Fkey(Head(fkeys)).ftable_oid].action =
                                 IF @ = ACTION_UNKNOWN THEN ACTION_REFERENCED ELSE @,
                             !.m[Fkey(Head(fkeys)).ftable_oid].referenced_by =
                                 IF Head(fkeys) \in Range(@) THEN @
                                 ELSE Append(@, Head(fkeys))])
                 EXCEPT !.seen = st.seen])

\* the loop over table.fkeys appending the key to referenced_by without
\* testing whether the list has it
RECURSIVE FollowFkeysNoDedup(_, _)
FollowFkeysNoDedup(fkeys, st) ==
    IF fkeys = <<>> THEN st
    ELSE IF st.m[Fkey(Head(fkeys)).ftable_oid].action
                \notin {ACTION_UNKNOWN, ACTION_REFERENCED, ACTION_DUMP}
    THEN FollowFkeysNoDedup(Tail(fkeys), st)
    ELSE FollowFkeysNoDedup(
             Tail(fkeys),
             _add_referred_tables(
                 Fkey(Head(fkeys)).ftable_oid,
                 [st EXCEPT !.m[Fkey(Head(fkeys)).ftable_oid].action =
                                IF @ = ACTION_UNKNOWN THEN ACTION_REFERENCED ELSE @,
                            !.m[Fkey(Head(fkeys)).ftable_oid].referenced_by =
                                Append(@, Head(fkeys))]))

\* Dumper._add_referred_tables(table, seen) on the state
\* st = [m: the matches, seen: the visited set, walked: every table explored,
\*       log: the tables explored since the top-level call, in order]
_add_referred_tables(t, st) ==
    IF t \in st.seen THEN st
    ELSE FollowFkeys(table_fkeys(t),
                     [st EXCEPT !.seen = @ \cup {t}, !.walked = @ \cup {t},
                                !.log = Append(@, t)])

\* the loop over table.fkeys of _add_referred_tables
FollowFkeys(fkeys, st) ==
    IF fkeys = <<>> THEN st
    ELSE LET fkey == Head(fkeys)
             f == Fkey(fkey).ftable_oid
             fmatch == st.m[f]
         IN  IF fmatch.action \notin {ACTION_UNKNOWN, ACTION_REFERENCED, ACTION_DUMP}
             THEN FollowFkeys(Tail(fkeys), st)
             ELSE LET act == IF fmatch.action = ACTION_UNKNOWN
                             THEN ACTION_REFERENCED ELSE fmatch.action
                      refs == IF fkey \in Range(fmatch.referenced_by)
                              THEN fmatch.referenced_by
                              ELSE Append(fmatch.referenced_by, fkey)
                      st1 == [st EXCEPT !.m[f].action = act,
                                        !.m[f].referenced_by = refs]
                  IN  FollowFkeys(Tail(fkeys), _add_referred_tables(f, st1))

RECURSIVE PassA(_, _)
RECURSIVE PassALoop(_, _, _)

\* the second loop of find_matches starting the walk from the tables with
\* action dump only
PassAFromDump(oids, st) ==
    IF oids = <<>> THEN st
    ELSE IF ~IsTable(Obj(Head(oids))) \/ st.m[Head(oids)].action # ACTION_DUMP
    THEN PassA(Tail(oids), st)
    ELSE PassALoop(Tail(oids), st,
                   _add_referred_tables(
                       Head(oids),
                       [m |-> st.m, seen |-> {}, walked |-> st.walked, log |-> <<>>]))

\* the second loop of find_matches, over the objects oids, on
\* [m, walked, walks]
PassA(oids, st) ==
    IF oids = <<>> THEN st
    ELSE IF ~IsTable(Obj(Head(oids)))
            \/ st.m[Head(oids)].action \notin {ACTION_DUMP, ACTION_REFERENCED}
    THEN PassA(Tail(oids), st)
    ELSE PassALoop(Tail(oids), st,
                   _add_referred_tables(
                       Head(oids),
                       [m |-> st.m, seen |-> {}, walked |-> st.walked, log |-> <<>>]))

\* the loop after the top-level call of _add_referred_tables returned r
PassALoop(oids, st, r) ==
    PassA(oids, [m |-> r.m, walked |-> r.walked, walks |-> Append(st.walks, r.log)])

\* _get_sequence_dependency_match without the test on no_columns
RECURSIVE SeqDependencyOfOmitted(_, _)
SeqDependencyOfOmitted(deps, m) ==
    IF deps = <<>> THEN NoNode
    ELSE IF m[db.seq_deps[Head(deps)].table_oid].action
                \notin {ACTION_DUMP, ACTION_REFERENCED}
    THEN SeqDependencyOfOmitted(Tail(deps), m)
    ELSE IF db.seq_deps[Head(deps)].column
                \in ReplaceKeys(m[db.seq_deps[Head(deps)].table_oid].replace)
    THEN SeqDependencyOfOmitted(Tail(deps), m)
    ELSE RuleMatch(ACTION_REFERENCED)

\* Dumper._get_sequence_dependency_match on the matches m: the new match of
\* the sequence, or NoNode for None
RECURSIVE SeqDependency(_, _)
SeqDependency(deps, m) ==
    IF deps = <<>> THEN NoNode
    ELSE LET dep == db.seq_deps[Head(deps)]
             ta == m[dep.table_oid]
         IN  IF ta.action \notin {ACTION_DUMP, ACTION_REFERENCED}
             THEN SeqDependency(Tail(deps), m)
             ELSE IF dep.column \in Range(ta.no_columns)
             THEN SeqDependency(Tail(deps), m)
             ELSE IF dep.column \in ReplaceKeys(ta.replace)
             THEN SeqDependency(Tail(deps), m)
             ELSE RuleMatch(ACTION_REFERENCED)

_get_sequence_dependency_match(s, m) ==
    SeqDependency(get_tables_using_sequence(s), m)

\* the third loop of find_matches
RECURSIVE PassB(_, _)
PassB(oids, m) ==
    IF oids = <<>> THEN m
    ELSE LET o == Head(oids)
         IN  IF ~IsSequence(Obj(o)) \/ m[o].action # ACTION_UNKNOWN
             THEN PassB(Tail(oids), m)
             ELSE LET new == _get_sequence_dependency_match(o, m)
                  IN  IF new # NoNode
                      THEN PassB(Tail(oids), [m EXCEPT ![o] = new])
                      ELSE PassB(Tail(oids), m)


-----------------------------------------------------------------------------
(* The query tree (seldump/query.py) and the StatementsGenerator.          *)
(* Aliases "t0", "t1", ... are <<"t", n>>, and a recursive alias "t0r" is  *)
(* <<"t", n, "r">>.                                                        *)

SQL(text) == [node |-> "SQL", text |-> text]
Identifier(name) == [node |-> "Identifier", name |-> name]
Select(columns, from_, where) ==
    [node |-> "Select", columns |-> columns, from_ |-> from_, where |-> where]
FromEntry(source, alias) == [node |-> "FromEntry", source |-> source, alias |-> alias]
TableSource(t) == [node |-> "Table", oid |-> t]
RecursiveCTE(name, base_query, rec_cond) ==
    [node |-> "RecursiveCTE", name |-> name, base_query |-> base_query,
     rec_cond |-> rec_cond]
Exists(query) == [node |-> "Exists", query |-> query]
And(conds) == [node |-> "And", conds |-> conds]
Or(conds) == [node |-> "Or", conds |-> conds]
FkeyJoin(fkey, from_, to) ==
    [node |-> "FkeyJoin", fkey |-> fkey, from_ |-> from_, to |-> to]
CopyOut(source) == [node |-> "CopyOut", source |-> source]

\* str.strip on the strings of the model
Strip(str) ==
    CASE str = " data <= 'c' " -> "data <= 'c'"
      [] str = " 'x' " -> "'x'"
      [] OTHER -> str

\* a Python string is true when it is neither None nor empty
Truthy(str) == str # None /\ str # ""

\* _maybe_op building the node of the operator around a single condition
_maybe_op_of_one(conds, op) ==
    IF SelectIdx(Upto(Len(conds)), {k \in DOMAIN conds : conds[k] # NoNode}) = <<>>
    THEN NoNode
    ELSE [node |-> op,
          conds |-> [k \in DOMAIN SelectIdx(Upto(Len(conds)),
                                            {x \in DOMAIN conds : conds[x] # NoNode})
                       |-> conds[SelectIdx(Upto(Len(conds)),
                                           {x \in DOMAIN conds : conds[x] # NoNode})[k]]]]

\* StatementsGenerator._maybe_op; op is "And" or "Or"
_maybe_op(conds, op) ==
    LET kept == SelectIdx(Upto(Len(conds)), {k \in DOMAIN conds : conds[k] # NoNode})
        cs == [k \in DOMAIN kept |-> conds[kept[k]]]
    IN  IF cs = <<>> THEN NoNode
        ELSE IF Len(cs) = 1 THEN cs[1]
        ELSE IF op = "And" THEN And(cs) ELSE Or(cs)

_maybe_and(conds) == _maybe_op(conds, "And")
\* _maybe_or joining the conditions with And
_maybe_or_joining_with_and(conds) == _maybe_op(conds, "And")
_maybe_or(conds) == _maybe_op(conds, "Or")

\* StatementsGenerator._get_filters: [raised, cond].  re has no function
\* replace, so a true extcondition raises AttributeError
_get_filters(t, m) ==
    IF Truthy(Obj(t).extcondition)
    THEN [raised |-> "AttributeError", cond |-> NoNode]
    ELSE [raised |-> None,
          cond |-> _maybe_and(IF Truthy(m[t].filter)
                              THEN <<SQL(Strip(m[t].filter))>> ELSE <<>>)]

\* StatementsGenerator._get_select(table, match, seen) with the matches m and
\* the alias counter seq: [q, seq, raised]
RECURSIVE _get_select(_, _, _, _)
RECURSIVE ExistsOfReferrers(_, _, _, _, _, _)
RECURSIVE _get_existence(_, _, _, _, _, _, _)

\* the statements of _get_select after its loop with the join of the
\* recursive term reversed: from the row of the table to the row of the CTE
SelectOfDescendants(t, m, seq, flt, ex) ==
    IF flt.raised # None THEN [q |-> NoNode, seq |-> seq + 1, raised |-> flt.raised]
    ELSE IF ex.raised # None THEN [q |-> NoNode, seq |-> ex.seq, raised |-> ex.raised]
    ELSE IF \E k \in Range(m[t].referenced_by) : Fkey(k).table_oid = Fkey(k).ftable_oid
    THEN [q |-> Select(
                  <<>>,
                  FromEntry(
                      RecursiveCTE(
                          <<"t", seq, "r">>,
                          Select(<<SQL("alias.*")>>,
                                 FromEntry(TableSource(t), <<"t", seq>>),
                                 _maybe_or(<<flt.cond>> \o ex.conds)),
                          _maybe_or([k \in DOMAIN SelectIdx(
                                         m[t].referenced_by,
                                         {x \in FkeyIds :
                                             Fkey(x).table_oid = Fkey(x).ftable_oid})
                                       |-> FkeyJoin(
                                               SelectIdx(
                                                   m[t].referenced_by,
                                                   {x \in FkeyIds :
                                                       Fkey(x).table_oid
                                                           = Fkey(x).ftable_oid})[k],
                                               <<"t", seq>>, <<"t", seq, "r">>)])),
                      <<"t", seq, "r">>),
                  NoNode),
          seq |-> ex.seq, raised |-> None]
    ELSE [q |-> Select(<<>>, FromEntry(TableSource(t), <<"t", seq>>),
                       _maybe_or(<<flt.cond>> \o ex.conds)),
          seq |-> ex.seq, raised |-> None]

\* the statements of _get_select after its loop: the plain select, wrapped in
\* a recursive CTE if the table has self-referencing keys (flt: the result of
\* _get_filters, ex: the result of the loop)
SelectOf(t, m, seq, flt, ex) ==
    LET alias == <<"t", seq>>
        srfkeys == SelectIdx(m[t].referenced_by,
                             {k \in FkeyIds : Fkey(k).table_oid = Fkey(k).ftable_oid})
        q == Select(<<>>, FromEntry(TableSource(t), alias),
                    _maybe_or(<<flt.cond>> \o ex.conds))
        rec_alias == <<"t", seq, "r">>
        rec_cond == _maybe_or([k \in DOMAIN srfkeys |->
                                   FkeyJoin(srfkeys[k], rec_alias, alias)])
        base == [q EXCEPT !.columns = <<SQL("alias.*")>>]
    IN  IF flt.raised # None THEN [q |-> NoNode, seq |-> seq + 1, raised |-> flt.raised]
        ELSE IF ex.raised # None THEN [q |-> NoNode, seq |-> ex.seq, raised |-> ex.raised]
        ELSE IF srfkeys # <<>>
        THEN [q |-> Select(<<>>, FromEntry(RecursiveCTE(rec_alias, base, rec_cond),
                                           rec_alias), NoNode),
              seq |-> ex.seq, raised |-> None]
        ELSE [q |-> q, seq |-> ex.seq, raised |-> None]

_get_select(t, m, seen, seq) ==
    SelectOf(t, m, seq, _get_filters(t, m),
             ExistsOfReferrers(t, m[t].referenced_by, m, seen \cup {t},
                               <<"t", seq>>, seq + 1))

\* the loop over match.referenced_by of _get_select, calling _get_existence
\* for the keys it keeps: [conds, seq, raised]
ExistsOfReferrers(t, refs, m, seen, parent, seq) ==
    IF refs = <<>> THEN [conds |-> <<>>, seq |-> seq, raised |-> None]
    ELSE IF \/ Fkey(Head(refs)).table_oid = Fkey(Head(refs)).ftable_oid
            \/ Fkey(Head(refs)).table_oid \in seen
    THEN ExistsOfReferrers(t, Tail(refs), m, seen, parent, seq)
    ELSE _get_existence(t, refs, m, seen, parent, Head(refs),
                        _get_select(Fkey(Head(refs)).table_oid, m, seen, seq))

\* _get_existence leaving the where of the select of the referring table out
\* of the subquery
_get_existence_of_any_row(t, refs, m, seen, parent, fkey, subsel) ==
    IF subsel.raised # None
    THEN [conds |-> <<>>, seq |-> subsel.seq, raised |-> subsel.raised]
    ELSE [ExistsOfReferrers(t, Tail(refs), m, seen, parent, subsel.seq)
             EXCEPT !.conds =
                 <<Exists(Select(<<SQL("1")>>, subsel.q.from_,
                                 FkeyJoin(fkey, subsel.q.from_.alias, parent)))>> \o @]

\* StatementsGenerator._get_existence(table, fkey, parent, seen), with subsel
\* the select of the referring table, followed by the rest of the loop
_get_existence(t, refs, m, seen, parent, fkey, subsel) ==
    IF subsel.raised # None
    THEN [conds |-> <<>>, seq |-> subsel.seq, raised |-> subsel.raised]
    ELSE [ExistsOfReferrers(t, Tail(refs), m, seen, parent, subsel.seq)
             EXCEPT !.conds =
                 <<Exists(Select(<<SQL("1")>>, subsel.q.from_,
                                 _maybe_and(<<FkeyJoin(fkey, subsel.q.from_.alias,
                                                       parent),
                                              subsel.q.where>>)))>> \o @]

\* StatementsGenerator._get_dump_attrs
_get_dump_attrs(t, mt) ==
    LET cols == Obj(t).columns
        kept == SelectIdx(Upto(Len(cols)),
                          {k \in DOMAIN cols : cols[k] \notin Range(mt.no_columns)})
    IN  [k \in DOMAIN kept |->
            IF cols[kept[k]] \in ReplaceKeys(mt.replace)
            THEN [node |-> "Paren",
                  expr |-> SQL(Strip(ReplaceExpr(mt.replace, cols[kept[k]])))]
            ELSE Identifier(cols[kept[k]])]

\* StatementsGenerator.make_query: the select with the attributes to dump
WithDumpAttrs(t, m, select) ==
    IF select.raised # None THEN [q |-> NoNode, raised |-> select.raised]
    ELSE [q |-> [select.q EXCEPT !.columns = _get_dump_attrs(t, m[t])],
          raised |-> None]

\* StatementsGenerator.make_query: [q, raised]
make_query(t, m) == WithDumpAttrs(t, m, _get_select(t, m, {}, 0))

\* StatementsGenerator._set_copy_to_simple: "copy <table> (<attrs>) to stdout"
_set_copy_to_simple(t, mt) ==
    [node |-> "CopyTable", table |-> t, columns |-> _get_dump_attrs(t, mt)]

\* StatementsGenerator.set_copy_statement, slow path: the query mq of
\* make_query is stored and wrapped in "copy (...) to stdout"
CopyOfQuery(t, m, mq) ==
    IF mq.raised # None THEN [m |-> m, raised |-> mq.raised]
    ELSE [m |-> [m EXCEPT ![t].query = mq.q, ![t].copy_statement = CopyOut(mq.q)],
          raised |-> None]

\* StatementsGenerator.set_copy_statement on the matches m: [m, raised]
set_copy_statement(t, m) ==
    IF ~( \/ m[t].action # ACTION_DUMP
          \/ m[t].replace # <<>>
          \/ Truthy(m[t].filter)
          \/ Truthy(Obj(t).extcondition)
          \/ table_ref_fkeys(t) # <<>> )
    THEN [m |-> [m EXCEPT ![t].copy_statement = _set_copy_to_simple(t, m[t])],
          raised |-> None]
    ELSE CopyOfQuery(t, m, make_query(t, m))

\* set_import_statement listing the attributes of the copy statement
set_import_statement_of_dump_attrs(t, mt) ==
    [mt EXCEPT !.import_statement =
        [node |-> "CopyFrom", table |-> t, columns |-> _get_dump_attrs(t, mt)]]

\* StatementsGenerator.set_import_statement: "copy <table> (<attrs>) from stdin;"
set_import_statement(t, mt) ==
    LET cols == Obj(t).columns
        kept == SelectIdx(Upto(Len(cols)),
                          {k \in DOMAIN cols : cols[k] \notin Range(mt.no_columns)})
    IN  [mt EXCEPT !.import_statement =
            [node |-> "CopyFrom", table |-> t,
             columns |-> [k \in DOMAIN kept |-> Identifier(cols[kept[k]])]]]

\* StatementsGenerator.find_errors: the errors appended to the match
find_errors(t, mt) ==
    LET bad_no == SelectIdx(Upto(Len(mt.no_columns)),
                            {k \in DOMAIN mt.no_columns :
                                get_column(t, mt.no_columns[k]) = None})
        bad_re == SelectIdx(Upto(Len(mt.replace)),
                            {k \in DOMAIN mt.replace :
                                get_column(t, mt.replace[k][1]) = None})
    IN  [k \in DOMAIN bad_no |->
            <<"the table doesn't have the column specified in 'no_columns'",
              mt.no_columns[bad_no[k]]>>]
        \o [k \in DOMAIN bad_re |->
            <<"the table doesn't have the column specified in 'replace'",
              mt.replace[bad_re[k]][1]>>]
        \o (IF Cardinality(Range(mt.no_columns)) = Len(Obj(t).columns)
            THEN <<<<"the table has no column left to dump: you should skip it", None>>>>
            ELSE <<>>)

\* make_statements after set_copy_statement returned c: set_import_statement
WithImport(t, c) ==
    IF c.raised # None THEN c
    ELSE [m |-> [c.m EXCEPT ![t] = set_import_statement(t, @)], raised |-> None]

\* make_statements after find_errors: the statements only if no error was found
StatementsOf(t, m1) ==
    IF m1[t].errors # <<>> THEN [m |-> m1, raised |-> None]
    ELSE WithImport(t, set_copy_statement(t, m1))

\* make_statements treating a table with no column like the others
make_statements_of_empty_table(t, m) ==
    IF m[t].action \notin {ACTION_DUMP, ACTION_REFERENCED}
    THEN [m |-> m, raised |-> None]
    ELSE StatementsOf(t, [m EXCEPT ![t].errors = @ \o find_errors(t, m[t])])

\* StatementsGenerator.make_statements on the matches m: [m, raised]
make_statements(t, m) ==
    IF m[t].action \notin {ACTION_DUMP, ACTION_REFERENCED}
    THEN [m |-> m, raised |-> None]
    ELSE IF Obj(t).columns = <<>>
    THEN [m |-> [m EXCEPT ![t].action = ACTION_SKIP], raised |-> None]
    ELSE StatementsOf(t, [m EXCEPT ![t].errors = @ \o find_errors(t, m[t])])

\* Dumper.generate_statements: the loop over the tables: [m, raised]
RECURSIVE generate_statements(_, _)
RECURSIVE StatementsLoop(_, _)
generate_statements(oids, m) ==
    IF oids = <<>> THEN [m |-> m, raised |-> None]
    ELSE IF ~IsTable(Obj(Head(oids))) THEN generate_statements(Tail(oids), m)
    ELSE StatementsLoop(Tail(oids), make_statements(Head(oids), m))

\* the loop of generate_statements after make_statements returned r: an
\* exception ends it
StatementsLoop(oids, r) ==
    IF r.raised # None THEN r ELSE generate_statements(oids, r.m)


-----------------------------------------------------------------------------
(* The rows a copy statement exports from the table contents data: the     *)
(* rows of a table are the numbers of data.rows, data.fk[k][r] is the row  *)
(* that row r points to through foreign key k (0: the key columns are      *)
(* null) and data.flt[t] the rows of t satisfying the filter of its rule.  *)
(* env is the set of the aliases in scope, each with the row it ranges     *)
(* over.                                                                   *)

AliasRow(env, alias) == (CHOOSE p \in env : p.alias = alias).row
Bind(env, alias, r) == env \cup {[alias |-> alias, row |-> r]}

RECURSIVE Cond(_, _, _, _)
RECURSIVE SelectRows(_, _)
RECURSIVE CteClosure(_, _, _)

\* the value of the condition c for row r of table t, as rendered by
\* visit_And, visit_Or, visit_Exists and visit_FkeyJoin
Cond(c, env, t, r) ==
    CASE c.node = "None" -> TRUE
      [] c.node = "SQL" -> r \in data.flt[t]
      [] c.node = "And" -> \A k \in DOMAIN c.conds : Cond(c.conds[k], env, t, r)
      [] c.node = "Or" -> \E k \in DOMAIN c.conds : Cond(c.conds[k], env, t, r)
      [] c.node = "Exists" -> SelectRows(c.query, env) # {}
      [] c.node = "FkeyJoin" ->
            data.fk[c.fkey][AliasRow(env, c.from_)] = AliasRow(env, c.to)

\* the rows a select returns, as rendered by visit_Select: from a table, or
\* from the recursive CTE stated before it
SelectRows(q, env) ==
    IF q.from_.source.node = "RecursiveCTE"
    THEN {r \in CteClosure(q.from_.source, env,
                           SelectRows(q.from_.source.base_query, env)) :
             Cond(q.where, Bind(env, q.from_.source.name, r),
                  q.from_.source.base_query.from_.source.oid, r)}
    ELSE {r \in Rows : Cond(q.where, Bind(env, q.from_.alias, r),
                            q.from_.source.oid, r)}

\* one more round of "union select ... from <table> join <cte> on rec_cond"
CteStep(cte, env, rows) ==
    rows \cup {r \in Rows : \E r2 \in rows :
                  Cond(cte.rec_cond,
                       Bind(Bind(env, cte.name, r2), cte.base_query.from_.alias, r),
                       cte.base_query.from_.source.oid, r)}

\* the fixpoint of the recursive CTE from the rows of its base query
CteFixpoint(cte, env, rows, more) ==
    IF more = rows THEN rows ELSE CteClosure(cte, env, more)

CteClosure(cte, env, rows) == CteFixpoint(cte, env, rows, CteStep(cte, env, rows))

\* the rows "copy <table> (...) to stdout" or "copy (<query>) to stdout" sends
CopyRows(statement) ==
    IF statement.node = "CopyTable" THEN Rows ELSE SelectRows(statement.source, {})

\* the rows exported for table t: dump_table runs match.copy_statement
Exported(t) == CopyRows(matches[t].copy_statement)

-----------------------------------------------------------------------------
(* The steps of perform_dump: plan_dump (find_matches, generate_statements,*)
(* report_errors) and run_dump (apply_actions).                            *)

UnchangedInputs == UNCHANGED <<db, rules, data>>

\* find_matches, first loop: the matches cleared, then a match for every
\* object
MatchObjects ==
    /\ pc = "find_matches"
    /\ \E r \in {MatchLoop(DbIter, matches_clear(matches))} :
          /\ r.raised = None
          /\ matches' = r.m
    /\ pc' = "pass_a"
    /\ UNCHANGED <<walked, walks, err, objs, i, wlog>>
    /\ UnchangedInputs
    /\ UNCHANGED plans

\* find_matches, first loop: get_match raises ConfigError on an object, and
\* the objects before it have their match
MatchObjectsRaise ==
    /\ pc = "find_matches"
    /\ \E r \in {MatchLoop(DbIter, matches_clear(matches))} :
          /\ r.raised # None
          /\ matches' = r.m
          /\ err' = r.raised
    /\ pc' = "failed"
    /\ UNCHANGED <<walked, walks, objs, i, wlog>>
    /\ UnchangedInputs
    /\ UNCHANGED plans

\* find_matches, second loop: the tables needed to fulfil foreign keys
AddReferredTables ==
    /\ pc = "pass_a"
    /\ \E r \in {PassA(DbIter, [m |-> matches, walked |-> {}, walks |-> <<>>])} :
          /\ matches' = r.m
          /\ walked' = r.walked
          /\ walks' = r.walks
    /\ pc' = "pass_b"
    /\ UNCHANGED <<err, objs, i, wlog>>
    /\ UnchangedInputs
    /\ UNCHANGED plans

\* find_matches, third loop: the sequences the dumped tables depend on
SequenceDependencies ==
    /\ pc = "pass_b"
    /\ matches' = PassB(DbIter, matches)
    /\ pc' = "generate_statements"
    /\ UNCHANGED <<walked, walks, err, objs, i, wlog>>
    /\ UnchangedInputs
    /\ UNCHANGED plans

\* generate_statements
GenerateStatements ==
    /\ pc = "generate_statements"
    /\ \E r \in {generate_statements(DbIter, matches)} :
          /\ r.raised = None
          /\ matches' = r.m
    /\ pc' = "report_errors"
    /\ UNCHANGED <<walked, walks, err, objs, i, wlog>>
    /\ UnchangedInputs
    /\ UNCHANGED plans

\* generate_statements ended by an exception of make_statements
GenerateStatementsRaise ==
    /\ pc = "generate_statements"
    /\ \E r \in {generate_statements(DbIter, matches)} :
          /\ r.raised # None
          /\ matches' = r.m
          /\ err' = r.raised
    /\ pc' = "failed"
    /\ UNCHANGED <<walked, walks, objs, i, wlog>>
    /\ UnchangedInputs
    /\ UNCHANGED plans

\* report_errors finding no error whatever the matches hold
has_errors_ignored == FALSE

\* the has_errors of report_errors
has_errors == \E o \in Oids : matches[o].errors # <<>>

\* report_errors finds no error: plan_dump returns
ReportErrors ==
    /\ pc = "report_errors"
    /\ ~has_errors
    /\ pc' = "run_dump"
    /\ UNCHANGED <<matches, walked, walks, err, objs, i, wlog>>
    /\ UnchangedInputs
    /\ UNCHANGED plans

\* report_errors raises DumpError
ReportErrorsRaise ==
    /\ pc = "report_errors"
    /\ has_errors
    /\ err' = "DumpError"
    /\ pc' = "failed"
    /\ UNCHANGED <<matches, walked, walks, objs, i, wlog>>
    /\ UnchangedInputs
    /\ UNCHANGED plans

\* a sort key leaving the objects in their iteration order
key_same_for_all(obj) == 1

\* the sort key of apply_actions
key(obj) ==
    IF IsTable(obj) THEN 1
    ELSE IF IsSequence(obj) THEN 2
    ELSE 3

\* objs.sort(key=key): a stable sort of the iteration order
RECURSIVE InsertByKey(_, _)
InsertByKey(o, sorted) ==
    IF sorted = <<>> THEN <<o>>
    ELSE IF key(Obj(Head(sorted))) <= key(Obj(o))
         THEN <<Head(sorted)>> \o InsertByKey(o, Tail(sorted))
         ELSE <<o>> \o sorted

RECURSIVE SortByKey(_)
SortByKey(os) ==
    IF os = <<>> THEN <<>>
    ELSE LET n == Len(os)
         IN  InsertByKey(os[n], SortByKey(SubSeq(os, 1, n - 1)))

\* the writer methods (Writer, DummyWriter, TestWriter)
WriterMethods ==
    {"begin_dump", "end_dump", "dump_table", "dump_sequence",
     "dump_materialized_view", "close"}

\* "dump_" + obj.kind.replace(" ", "_")
DumpMethod(obj) ==
    CASE obj.kind = KIND_TABLE -> "dump_table"
      [] obj.kind = KIND_PART_TABLE -> "dump_partitioned_table"
      [] obj.kind = KIND_SEQUENCE -> "dump_sequence"
      [] obj.kind = KIND_MATVIEW -> "dump_materialized_view"

\* the _apply_<action> methods of the Dumper
ApplyMethods == {ACTION_UNKNOWN, ACTION_SKIP, ACTION_DUMP, ACTION_REFERENCED}

\* run_dump, apply_actions up to the loop: the objects sorted, begin_dump
BeginDump ==
    /\ pc = "run_dump"
    /\ objs' = SortByKey(DbIter)
    /\ wlog' = Append(wlog, [op |-> "begin_dump", oid |-> 0])
    /\ i' = 1
    /\ pc' = "apply_actions"
    /\ UNCHANGED <<matches, walked, walks, err>>
    /\ UnchangedInputs
    /\ UNCHANGED plans

\* apply_actions, one iteration: _apply_unknown or _apply_skip
ApplySkip ==
    /\ pc = "apply_actions"
    /\ i <= Len(objs)
    /\ matches[objs[i]].action \in {ACTION_UNKNOWN, ACTION_SKIP}
    /\ i' = i + 1
    /\ UNCHANGED <<matches, walked, walks, pc, err, objs, wlog>>
    /\ UnchangedInputs
    /\ UNCHANGED plans

\* apply_actions, one iteration: _apply_dump or _apply_ref calls the writer
ApplyDump ==
    /\ pc = "apply_actions"
    /\ i <= Len(objs)
    /\ matches[objs[i]].action \in {ACTION_DUMP, ACTION_REFERENCED}
    /\ DumpMethod(Obj(objs[i])) \in WriterMethods
    /\ wlog' = Append(wlog, [op |-> DumpMethod(Obj(objs[i])), oid |-> objs[i]])
    /\ i' = i + 1
    /\ UNCHANGED <<matches, walked, walks, pc, err, objs>>
    /\ UnchangedInputs
    /\ UNCHANGED plans

\* apply_actions, one iteration: no _apply_<action> method, or no
\* dump_<kind> method of the writer: DumpError
ApplyRaise ==
    /\ pc = "apply_actions"
    /\ i <= Len(objs)
    /\ IF matches[objs[i]].action \in ApplyMethods
       THEN /\ matches[objs[i]].action \in {ACTION_DUMP, ACTION_REFERENCED}
            /\ DumpMethod(Obj(objs[i])) \notin WriterMethods
       ELSE TRUE
    /\ err' = "DumpError"
    /\ pc' = "failed"
    /\ UNCHANGED <<matches, walked, walks, objs, i, wlog>>
    /\ UnchangedInputs
    /\ UNCHANGED plans

\* apply_actions after the loop: end_dump
EndDump ==
    /\ pc = "apply_actions"
    /\ i > Len(objs)
    /\ wlog' = Append(wlog, [op |-> "end_dump", oid |-> 0])
    /\ pc' = "done"
    /\ UNCHANGED <<matches, walked, walks, err, objs, i>>
    /\ UnchangedInputs
    /\ UNCHANGED plans

\* plan_dump called again on the same Dumper, after it returned or raised:
\* the outcome of the call before is kept for comparison
PlanAgain ==
    /\ pc = "run_dump" \/ (pc = "failed" /\ objs = <<>>)
    /\ Len(plans) + 1 < MaxPlans
    /\ plans' = Append(plans, [matches |-> matches, err |-> err, pc |-> pc])
    /\ pc' = "find_matches"
    /\ err' = None
    /\ UNCHANGED <<matches, walked, walks, objs, i, wlog>>
    /\ UnchangedInputs

\* a Dumper given the same rules in another order (add_config appends the
\* rules in the order of the configuration), its matching starting afresh;
\* the outcome of the matching before is kept for comparison
AddConfigReordered ==
    /\ pc = "pass_a" \/ (pc = "failed" /\ objs = <<>>)
    /\ plans = <<>>
    /\ \E p \in Permutations(DOMAIN rules) :
          rules' = [k \in DOMAIN rules |-> rules[p[k]]]
    /\ plans' = Append(plans, [matches |-> matches, err |-> err, pc |-> pc,
                               rules |-> rules])
    /\ pc' = "find_matches"
    /\ err' = None
    /\ UNCHANGED <<db, data, matches, walked, walks, objs, i, wlog>>

Next ==
    \/ MatchObjects
    \/ MatchObjectsRaise
    \/ AddReferredTables
    \/ SequenceDependencies
    \/ GenerateStatements
    \/ GenerateStatementsRaise
    \/ ReportErrors
    \/ ReportErrorsRaise
    \/ BeginDump
    \/ ApplySkip
    \/ ApplyDump
    \/ ApplyRaise
    \/ EndDump


-----------------------------------------------------------------------------
(* The inputs: schemas, rule sets and table contents.                      *)

TableName == <<"table1", "table2", "table3">>
SeqName == <<"table1_id_seq", "table2_id_seq", "table3_id_seq">>
\* the column of a table holding the key of the table f it references
FkCol == <<"t1id", "t2id", "t3id">>
DbObject(kind, name, columns) ==
    [kind |-> kind, schema |-> "public", name |-> name, extension |-> None,
     extcondition |-> None, columns |-> columns]

ForeignKey(t, f) ==
    [name |-> <<FkCol[f], TableName[f], "id", "fkey">>, table_oid |-> t,
     table_cols |-> <<FkCol[f]>>, ftable_oid |-> f, ftable_cols |-> <<"id">>]

\* DumpRule.__init__ with its defaults
DumpRule ==
    [names |-> {}, names_re |-> <<>>, schemas |-> {}, schemas_re |-> <<>>,
     kinds |-> {}, adjust_score |-> 0, action |-> ACTION_DUMP,
     no_columns |-> <<>>, replace |-> <<>>, filter |-> None]

\* a set of (table, referenced table) pairs in lexicographic order
RECURSIVE PairsToSeq(_)
PairsToSeq(S) ==
    IF S = {} THEN <<>>
    ELSE LET p == CHOOSE x \in S :
                      \A y \in S : x[1] < y[1] \/ (x[1] = y[1] /\ x[2] <= y[2])
         IN  <<p>> \o PairsToSeq(S \ {p})

\* the schema of the tables 1..n with one foreign key per pair, each table
\* with the columns id, data and its foreign-key columns
TablesDb(n, pairs) ==
    [objs |-> [t \in 1 .. n |->
                  DbObject(KIND_TABLE, TableName[t],
                           <<"id", "data">>
                           \o [k \in DOMAIN SelectIdx(pairs, {p \in Range(pairs) : p[1] = t})
                                 |-> FkCol[SelectIdx(pairs, {p \in Range(pairs) : p[1] = t})[k][2]]])],
     fkeys |-> [k \in DOMAIN pairs |-> ForeignKey(pairs[k][1], pairs[k][2])],
     seq_deps |-> <<>>]

\* the rules of a choice of one option per table: "none" for no rule, an
\* action, or "filter" for a dump rule with a filter
RuleOfOption(t, opt) ==
    IF opt = "filter"
    THEN [DumpRule EXCEPT !.names = {TableName[t]}, !.filter = " data <= 'c' "]
    ELSE [DumpRule EXCEPT !.names = {TableName[t]}, !.action = opt]

RulesOfOptions(opts) ==
    LET with == SelectIdx(Upto(Len(opts)), {t \in DOMAIN opts : opts[t] # "none"})
    IN  [k \in DOMAIN with |-> RuleOfOption(with[k], opts[with[k]])]

\* table contents: fk[k][r] is the row of the referenced table that row r of
\* the referring table of foreign key k points to (0: null), and flt[t] the
\* rows of table t that satisfy the filter of its rule
DataOf(n, fk) == [rows |-> 1 .. NRows, fk |-> fk, flt |-> [t \in 1 .. n |-> {1}]]
PlainData(n, pairs) == DataOf(n, [k \in DOMAIN pairs |-> [r \in 1 .. NRows |-> r]])

(* The foreign-key family: three tables, every set of at most MaxFkeys     *)
(* foreign keys between them, every choice of no rule or a rule of one of  *)
(* the four actions per table.                                             *)
FkeyPairs == (1 .. 3) \X (1 .. 3)
FkeySets == {X \in SUBSET FkeyPairs : Cardinality(X) <= MaxFkeys}
FkeyOptions ==
    [1 .. 3 -> {"none", ACTION_DUMP, ACTION_REFERENCED, ACTION_SKIP, ACTION_ERROR}]
FkeyInput(S, opts) ==
    [db |-> TablesDb(3, PairsToSeq(S)), rules |-> RulesOfOptions(opts),
     data |-> PlainData(3, PairsToSeq(S))]

(* The data family: a few schemas and rule sets, every table contents of   *)
(* NRows rows per table.                                                   *)
DataPlans ==
    { \* table1:dump[filter] -> table2 -> table3
      [n |-> 3, pairs |-> <<<<1, 2>>, <<2, 3>>>>, opts |-> <<"filter", "none", "none">>],
      \* table1:dump[filter] <-> table2
      [n |-> 2, pairs |-> <<<<1, 2>>, <<2, 1>>>>, opts |-> <<"filter", "none">>],
      \* table1:dump[filter] -> table1
      [n |-> 1, pairs |-> <<<<1, 1>>>>, opts |-> <<"filter">>],
      \* table2:dump[filter] -> table1 -> table1
      [n |-> 2, pairs |-> <<<<1, 1>>, <<2, 1>>>>, opts |-> <<"none", "filter">>],
      \* table1:dump[filter] -> table3 <- table2:dump
      [n |-> 3, pairs |-> <<<<1, 3>>, <<2, 3>>>>, opts |-> <<"filter", ACTION_DUMP, "none">>],
      \* table1:dump[filter] -> table2:dump[filter]
      [n |-> 2, pairs |-> <<<<1, 2>>>>, opts |-> <<"filter", "filter">>],
      \* table1:dump[filter] -> table2:dump
      [n |-> 2, pairs |-> <<<<1, 2>>>>, opts |-> <<"filter", ACTION_DUMP>>] }

DataContents(p) == [DOMAIN p.pairs -> [1 .. NRows -> 0 .. NRows]]
DataInput(p, fk) ==
    [db |-> TablesDb(p.n, p.pairs), rules |-> RulesOfOptions(p.opts),
     data |-> DataOf(p.n, fk)]

(* The kinds family: a sequence, a table, a materialized view, a           *)
(* partitioned table referencing the table, a table with no column and a   *)
(* second sequence, in this iteration order; the first sequence feeds the  *)
(* id columns of both tables.  The inputs vary the rule of each object and *)
(* the extension data of the table.                                        *)
KindsDb(ext) ==
    [objs |-> << DbObject(KIND_SEQUENCE, "table1_id_seq", <<>>),
                 [DbObject(KIND_TABLE, "table1", <<"id", "data">>)
                     EXCEPT !.extension = ext[1], !.extcondition = ext[2]],
                 DbObject(KIND_MATVIEW, "mv1", <<>>),
                 DbObject(KIND_PART_TABLE, "table2", <<"id", "data", "t1id">>),
                 DbObject(KIND_TABLE, "table3", <<>>),
                 DbObject(KIND_SEQUENCE, "table2_id_seq", <<>>) >>,
     fkeys |-> << [ForeignKey(4, 1) EXCEPT !.ftable_oid = 2] >>,
     seq_deps |-> << [seq_oid |-> 1, table_oid |-> 2, column |-> "id"],
                     [seq_oid |-> 1, table_oid |-> 4, column |-> "id"] >>]

Table1Rules ==
    { <<>>,
      << [DumpRule EXCEPT !.names = {"table1"}] >>,
      << [DumpRule EXCEPT !.names = {"table1"}, !.action = ACTION_SKIP] >>,
      << [DumpRule EXCEPT !.names = {"table1"}, !.no_columns = <<"id">>] >>,
      << [DumpRule EXCEPT !.names = {"table1"}, !.no_columns = <<"data">>] >>,
      << [DumpRule EXCEPT !.names = {"table1"}, !.no_columns = <<"bogus">>] >>,
      << [DumpRule EXCEPT !.names = {"table1"}, !.action = ACTION_SKIP,
                          !.no_columns = <<"bogus">>] >>,
      << [DumpRule EXCEPT !.names = {"table1"}, !.replace = << <<"id", "NULL">> >>] >>,
      << [DumpRule EXCEPT !.names = {"table1"}, !.replace = << <<"data", " 'x' ">> >>] >> }

SequenceRules ==
    { <<>> } \cup
    { << [DumpRule EXCEPT !.kinds = {KIND_SEQUENCE}, !.action = a] >> :
         a \in {ACTION_DUMP, ACTION_REFERENCED, ACTION_SKIP} }

MatviewRules ==
    { <<>>,
      << [DumpRule EXCEPT !.names = {"mv1"}] >>,
      << [DumpRule EXCEPT !.names = {"mv1"}],
         [DumpRule EXCEPT !.names = {"mv1", "mv2"}, !.action = ACTION_SKIP] >> }

OptionalRule(name) == { <<>>, << [DumpRule EXCEPT !.names = {name}] >> }

Table2Rules ==
    OptionalRule("table2") \cup
    { << [DumpRule EXCEPT !.names = {"table2"}, !.no_columns = <<"data">>,
                          !.replace = << <<"t1id", "NULL">> >>] >> }

Extensions ==
    { <<None, None>>, <<"ext", None>>, <<"ext", "">>, <<"ext", "where x > 1">> }

KindsInput(ext, rs) ==
    [db |-> KindsDb(ext), rules |-> rs, data |-> DataOf(6, <<[r \in 1 .. NRows |-> r]>>)]

(* The matching family: a table and a sequence, and every rule set of at   *)
(* most MaxRules rules whose selectors are drawn from RuleSelectors.  The  *)
(* rule at position k has the k-th action and the k-th filter, so that a   *)
(* match tells the rule it was made from.  Rule sets are taken up to the   *)
(* order of their selectors.                                               *)
NamesSelectors ==
    { [names |-> {}, names_re |-> <<>>],
      [names |-> {"table1"}, names_re |-> <<>>],
      \* names: ^table
      [names |-> {}, names_re |-> <<{"table1", "table2", "table1_id_seq"}>>] }
SchemasSelectors ==
    { [schemas |-> {}, schemas_re |-> <<>>],
      [schemas |-> {"public"}, schemas_re |-> <<>>],
      \* schemas: ^pub
      [schemas |-> {}, schemas_re |-> <<{"public", "pub2"}>>] }
KindsSelectors == { {}, {KIND_TABLE} }
ScoreAdjustments == {0, 50}

RuleSelectors ==
    {[DumpRule EXCEPT !.names = n.names, !.names_re = n.names_re,
                      !.schemas = s.schemas, !.schemas_re = s.schemas_re,
                      !.kinds = k, !.adjust_score = a] :
        n \in NamesSelectors, s \in SchemasSelectors, k \in KindsSelectors,
        a \in ScoreAdjustments}

\* an enumeration of RuleSelectors
RECURSIVE SetToSeq(_)
SetToSeq(S) ==
    IF S = {} THEN <<>>
    ELSE LET x == CHOOSE y \in S : TRUE IN <<x>> \o SetToSeq(S \ {x})
SelectorPool == SetToSeq(RuleSelectors)

ActionOfPosition ==
    <<ACTION_DUMP, ACTION_SKIP, ACTION_REFERENCED, ACTION_ERROR, ACTION_DUMP>>
FilterOfPosition == <<"f1", "f2", "f3", "f4", "f5">>

\* the indexes of the pool q holds are in non-decreasing order
IsSorted(q) == \A j, k \in DOMAIN q : j < k => q[j] <= q[k]

MatchDb ==
    [objs |-> << DbObject(KIND_TABLE, "table1", <<"id", "data">>),
                 DbObject(KIND_SEQUENCE, "table1_id_seq", <<>>) >>,
     fkeys |-> <<>>,
     seq_deps |-> << [seq_oid |-> 2, table_oid |-> 1, column |-> "id"] >>]

MatchInput(q) ==
    [db |-> MatchDb,
     rules |-> [k \in DOMAIN q |->
                   [SelectorPool[q[k]] EXCEPT !.action = ActionOfPosition[k],
                                              !.filter = FilterOfPosition[k]]],
     data |-> DataOf(2, <<>>)]

-----------------------------------------------------------------------------
(* Specifications.                                                         *)

InitOf(input) ==
    /\ db = input.db
    /\ rules = input.rules
    /\ data = input.data
    /\ matches = <<>>
    /\ walked = {}
    /\ walks = <<>>
    /\ plans = <<>>
    /\ pc = "find_matches"
    /\ err = None
    /\ objs = <<>>
    /\ i = 0
    /\ wlog = <<>>

\* a dump of a schema of one of the families
InitFkeys == \E S \in FkeySets, opts \in FkeyOptions : InitOf(FkeyInput(S, opts))
InitData == \E p \in DataPlans : \E fk \in DataContents(p) : InitOf(DataInput(p, fk))
InitKinds ==
    \E ext \in Extensions, r1 \in Table1Rules, rs \in SequenceRules,
       rm \in MatviewRules, r2 \in Table2Rules,
       r3 \in OptionalRule("table3") :
        InitOf(KindsInput(ext, r1 \o rs \o rm \o r2 \o r3))
Init == InitFkeys \/ InitData \/ InitKinds

Spec == Init /\ [][Next]_vars

\* the matching of the objects against the rule sets of the matching family
InitMatch ==
    \E n \in 0 .. MaxRules :
        \E q \in [1 .. n -> DOMAIN SelectorPool] : IsSorted(q) /\ InitOf(MatchInput(q))

NextMatch ==
    \/ MatchObjects
    \/ MatchObjectsRaise

SpecMatch == InitMatch /\ [][NextMatch]_vars

(* The order family: the table and the sequence of the matching family and *)
(* every rule set of at most MaxRules rules whose selectors are drawn from  *)
(* OrderSelectors, the rule sets given in every order.                      *)
OrderSelectors == {r \in RuleSelectors : r.schemas = {} /\ r.schemas_re = <<>>}
OrderPool == SetToSeq(OrderSelectors)
OrderInput(q) ==
    [db |-> MatchDb,
     rules |-> [k \in DOMAIN q |->
                   [OrderPool[q[k]] EXCEPT !.action = ActionOfPosition[k],
                                           !.filter = FilterOfPosition[k]]],
     data |-> DataOf(2, <<>>)]

InitOrder ==
    \E n \in 0 .. MaxRules :
        \E q \in [1 .. n -> DOMAIN OrderPool] : IsSorted(q) /\ InitOf(OrderInput(q))

NextOrder ==
    \/ MatchObjects
    \/ MatchObjectsRaise
    \/ AddConfigReordered

SpecOrder == InitOrder /\ [][NextOrder]_vars

\* the dumps of the data and kinds families whose plan is made more than once
InitReplan == InitData \/ InitKinds

NextReplan ==
    \/ Next
    \/ PlanAgain

SpecReplan == InitReplan /\ [][NextReplan]_vars

(* The self-reference family: table1 with the self-referential keys        *)
(* father_id and mother_id, dumped with a filter (test_self_ref), and      *)
(* table1 with the key father_id, dumped with a filter and referred to by  *)
(* a dumped table2.  Every table has NRows + 1 rows, of which row 1        *)
(* satisfies the filter.  The father of a row is any row or null; its      *)
(* mother is a row of a higher number or null; row 1 of table2 refers to   *)
(* any row of table1 or to none, its other rows to none.                   *)
SelfRefRows == 1 .. (NRows + 1)
SelfRefKey(col) ==
    [ForeignKey(1, 1) EXCEPT !.name = <<col, "table1", "id", "fkey">>,
                             !.table_cols = <<col>>]
ParentsDb ==
    [objs |-> << DbObject(KIND_TABLE, "table1",
                          <<"id", "data", "father_id", "mother_id">>) >>,
     fkeys |-> << SelfRefKey("father_id"), SelfRefKey("mother_id") >>,
     seq_deps |-> <<>>]
ReferredParentsDb ==
    [objs |-> << DbObject(KIND_TABLE, "table1", <<"id", "data", "father_id">>),
                 DbObject(KIND_TABLE, "table2", <<"id", "data", "t1id">>) >>,
     fkeys |-> << SelfRefKey("father_id"), ForeignKey(2, 1) >>,
     seq_deps |-> <<>>]
AnyParent == [SelfRefRows -> {0} \cup SelfRefRows]
OlderParent == {m \in AnyParent : \A r \in SelfRefRows : m[r] = 0 \/ m[r] > r}
FirstRowRefers == {m \in AnyParent : \A r \in SelfRefRows : r # 1 => m[r] = 0}
SelfRefInput(sdb, opts, fk) ==
    [db |-> sdb, rules |-> RulesOfOptions(opts),
     data |-> [rows |-> SelfRefRows, fk |-> fk,
               flt |-> [t \in DOMAIN sdb.objs |-> {1}]]]

InitSelfRef ==
    \/ \E f \in AnyParent, m \in OlderParent :
          InitOf(SelfRefInput(ParentsDb, <<"filter">>, <<f, m>>))
    \/ \E f \in AnyParent, x \in FirstRowRefers :
          InitOf(SelfRefInput(ReferredParentsDb, <<"filter", ACTION_DUMP>>, <<f, x>>))

\* the planning of a dump that finds no error
NextSelfRef ==
    \/ MatchObjects
    \/ AddReferredTables
    \/ SequenceDependencies
    \/ GenerateStatements
    \/ ReportErrors

SpecSelfRef == InitSelfRef /\ [][NextSelfRef]_vars

(* The extension family: table1 and its sequence, each in an extension or  *)
(* not, with or without a dump condition, and table2 referring to table1;  *)
(* the rule sets give table1 and the sequence no rule, a dump rule, an     *)
(* error rule or two rules of the same score.                              *)
ExtDb(e1, e2) ==
    [objs |-> << [DbObject(KIND_TABLE, "table1", <<"id", "data">>)
                     EXCEPT !.extension = e1[1], !.extcondition = e1[2]],
                 [DbObject(KIND_SEQUENCE, "table1_id_seq", <<>>)
                     EXCEPT !.extension = e2[1], !.extcondition = e2[2]],
                 DbObject(KIND_TABLE, "table2", <<"id", "data", "t1id">>) >>,
     fkeys |-> << [ForeignKey(3, 1) EXCEPT !.table_oid = 3] >>,
     seq_deps |-> << [seq_oid |-> 2, table_oid |-> 1, column |-> "id"] >>]

ExtTable1Rules ==
    { <<>>,
      << [DumpRule EXCEPT !.names = {"table1"}] >>,
      << [DumpRule EXCEPT !.names = {"table1"}, !.action = ACTION_ERROR] >>,
      << [DumpRule EXCEPT !.names = {"table1"}, !.no_columns = <<"bogus">>] >>,
      << [DumpRule EXCEPT !.names = {"table1"}],
         [DumpRule EXCEPT !.names = {"table1"}, !.action = ACTION_SKIP] >> }
ExtSequenceRules ==
    { <<>>,
      << [DumpRule EXCEPT !.kinds = {KIND_SEQUENCE}, !.action = ACTION_ERROR] >>,
      << [DumpRule EXCEPT !.kinds = {KIND_SEQUENCE}],
         [DumpRule EXCEPT !.kinds = {KIND_SEQUENCE, KIND_MATVIEW},
                          !.action = ACTION_SKIP] >> }
ExtTable2Rules ==
    { <<>>,
      << [DumpRule EXCEPT !.names = {"table2"}] >>,
      << [DumpRule EXCEPT !.kinds = {KIND_TABLE}, !.action = ACTION_ERROR] >> }

ExtInput(e1, e2, rs) ==
    [db |-> ExtDb(e1, e2), rules |-> rs,
     data |-> DataOf(3, <<[r \in 1 .. NRows |-> r]>>)]

InitExt ==
    \E e1 \in Extensions, e2 \in Extensions, r1 \in ExtTable1Rules,
       rs \in ExtSequenceRules, r2 \in ExtTable2Rules :
        InitOf(ExtInput(e1, e2, r1 \o rs \o r2))

\* the planning of a dump
NextExt ==
    \/ MatchObjects
    \/ MatchObjectsRaise
    \/ AddReferredTables
    \/ SequenceDependencies
    \/ GenerateStatements
    \/ GenerateStatementsRaise
    \/ ReportErrors
    \/ ReportErrorsRaise

SpecExt == InitExt /\ [][NextExt]_vars

(* The generated-columns family: table1 with the columns id, data and id2, *)
(* of which none, id2 or data and id2 are generated columns of the         *)
(* database (test_default_columns), under the rules of Table1Rules.  A     *)
(* table of this family carries the names of its generated columns.        *)
TableWithGenerated(name, columns, generated) ==
    [kind |-> KIND_TABLE, schema |-> "public", name |-> name, extension |-> None,
     extcondition |-> None, columns |-> columns, generated |-> generated]
GeneratedDb(generated) ==
    [objs |-> << TableWithGenerated("table1", <<"id", "data", "id2">>, generated) >>,
     fkeys |-> <<>>, seq_deps |-> <<>>]
GeneratedChoices == { {}, {"id2"}, {"data", "id2"} }

InitGenerated ==
    \E g \in GeneratedChoices, r1 \in Table1Rules :
        InitOf([db |-> GeneratedDb(g), rules |-> r1, data |-> DataOf(1, <<>>)])

\* the dump of a schema of tables
NextGenerated ==
    \/ MatchObjects
    \/ AddReferredTables
    \/ SequenceDependencies
    \/ GenerateStatements
    \/ ReportErrors
    \/ ReportErrorsRaise
    \/ BeginDump
    \/ ApplySkip
    \/ ApplyDump
    \/ EndDump

SpecGenerated == InitGenerated /\ [][NextGenerated]_vars

-----------------------------------------------------------------------------
(* Properties.                                                             *)

\* the planning of plan_dump has succeeded
Planned == pc \in {"run_dump", "apply_actions", "done"}
\* find_matches is past its second loop
AfterPassA ==
    pc \in {"pass_b", "generate_statements", "report_errors", "run_dump",
            "apply_actions", "done"}
\* find_matches has returned
AfterFindMatches ==
    pc \in {"generate_statements", "report_errors", "run_dump", "apply_actions", "done"}
Active(o) == matches[o].action \in {ACTION_DUMP, ACTION_REFERENCED}
\* the action the first loop of find_matches gives the object
InitialAction(o) == get_match(Obj(o)).match.action

\* C1: referential closure of the dump.  When planning succeeds, for every
\* foreign key T -> F whose tables both end with action dump or ref, every
\* row exported for T with non-null key columns references a row exported
\* for F, cycles of foreign keys included.
ReferentialClosure ==
    Planned =>
        \A k \in FkeyIds :
            (Active(Fkey(k).table_oid) /\ Active(Fkey(k).ftable_oid)) =>
                \A r \in Exported(Fkey(k).table_oid) :
                    data.fk[k][r] # 0 =>
                        data.fk[k][r] \in Exported(Fkey(k).ftable_oid)

\* the score of a rule as the specification states it
StatedScore(rule) ==
    rule.adjust_score
    + (IF rule.names # {} THEN 1000 ELSE IF rule.names_re # <<>> THEN 500 ELSE 0)
    + (IF rule.schemas # {} THEN 100 ELSE IF rule.schemas_re # <<>> THEN 50 ELSE 0)
    + (IF rule.kinds # {} THEN 10 ELSE 0)
\* the positions of the rules matching an object, and those of top score
Matching(o) == {k \in DOMAIN rules : match(rules[k], Obj(o))}
TopRules(o) ==
    {k \in Matching(o) :
        \A j \in Matching(o) : StatedScore(rules[j]) <= StatedScore(rules[k])}
SeededFrom(m, rule) ==
    /\ m.action = rule.action
    /\ m.filter = rule.filter
    /\ m.no_columns = rule.no_columns
    /\ m.replace = rule.replace

\* C2: for every object not in an extension, get_match seeds the match from
\* the one matching rule of strictly highest score, gives action unknown
\* when no rule matches, and raises the ambiguous-match ConfigError exactly
\* when two matching rules share the top score (a tie below the top does
\* not fail).
BestRuleOrAmbiguous ==
    /\ pc = "pass_a" => DOMAIN matches = Oids
    /\ \A o \in DOMAIN matches :
          Obj(o).extension = None =>
              IF Matching(o) = {} THEN matches[o].action = ACTION_UNKNOWN
              ELSE /\ Cardinality(TopRules(o)) = 1
                   /\ \A k \in TopRules(o) : SeededFrom(matches[o], rules[k])
                   /\ matches[o].action # ACTION_UNKNOWN
    /\ pc = "failed" =>
          /\ err = "ConfigError"
          /\ Cardinality(DOMAIN matches) + 1 \in Oids
          /\ Cardinality(TopRules(Cardinality(DOMAIN matches) + 1)) >= 2

\* C2 witness: a match made from the top rule of three matching rules, the
\* other two tied below it
TieBelowTopMatched ==
    /\ pc = "pass_a"
    /\ \E o \in Oids :
          /\ Cardinality(Matching(o)) = 3
          /\ Cardinality(TopRules(o)) = 1
          /\ \E j, k \in Matching(o) \ TopRules(o) :
                j # k /\ StatedScore(rules[j]) = StatedScore(rules[k])

\* the tables one foreign key away from a table of S
Successors(S) ==
    {Fkey(k).ftable_oid : k \in {x \in FkeyIds : Fkey(x).table_oid \in S}}
\* the tables reachable from found by foreign keys leaving tables of through
RECURSIVE ReachFrom(_, _, _)
ReachFrom(found, through, n) ==
    IF n = 0 THEN found
    ELSE ReachFrom(found \cup Successors(found \cap through), through, n - 1)
\* the tables reachable from a table of S by a non-empty path of foreign
\* keys whose tables after the first and before the last are in through
Reachable(S, through) == ReachFrom(Successors(S), through, Cardinality(Oids))
DumpTables == {t \in TableOids : matches[t].action = ACTION_DUMP}
ActiveTables == {t \in TableOids : Active(t)}
Settled(o) ==
    matches[o].action \in {ACTION_DUMP, ACTION_REFERENCED, ACTION_SKIP, ACTION_ERROR}

\* C3 as stated: after propagation every table reachable by foreign keys,
\* over any path, from a table whose action is dump has an action among
\* dump, ref, skip and error, never unknown.
ReachableNeverUnknown ==
    AfterPassA => \A t \in Reachable(DumpTables, TableOids) : Settled(t)

\* C3 amended: after propagation every table reachable from a table whose
\* action is dump by a path of foreign keys whose intermediate tables all
\* have action dump or ref has an action among dump, ref, skip and error.
ReachableThroughActiveNeverUnknown ==
    AfterPassA => \A t \in Reachable(DumpTables, ActiveTables) : Settled(t)

\* C3 witness: a table no rule matches, two foreign keys away from a dumped
\* table through another unmatched table, has been promoted to ref
PromotedAtDistanceTwo ==
    /\ AfterPassA
    /\ \E j, k \in FkeyIds :
          /\ Fkey(j).ftable_oid = Fkey(k).table_oid
          /\ Cardinality({Fkey(j).table_oid, Fkey(k).table_oid,
                          Fkey(k).ftable_oid}) = 3
          /\ matches[Fkey(j).table_oid].action = ACTION_DUMP
          /\ InitialAction(Fkey(k).table_oid) = ACTION_UNKNOWN
          /\ InitialAction(Fkey(k).ftable_oid) = ACTION_UNKNOWN
          /\ \A x \in FkeyIds : Fkey(x).ftable_oid = Fkey(k).ftable_oid => x = k
          /\ matches[Fkey(k).ftable_oid].action = ACTION_REFERENCED

\* the tables consuming sequence s through a column their match neither
\* omits nor replaces, and having action dump or ref
Consumers(s) ==
    {d \in DOMAIN db.seq_deps :
        /\ db.seq_deps[d].seq_oid = s
        /\ Active(db.seq_deps[d].table_oid)
        /\ db.seq_deps[d].column \notin Range(matches[db.seq_deps[d].table_oid].no_columns)
        /\ db.seq_deps[d].column
              \notin ReplaceKeys(matches[db.seq_deps[d].table_oid].replace)}

\* C4 as stated: after find_matches a sequence has action ref if and only
\* if a table with action dump or ref consumes it through a column that is
\* neither in the table's no_columns nor a key of its replace.
SequenceRefIffConsumed ==
    AfterFindMatches =>
        \A s \in SequenceOids :
            matches[s].action = ACTION_REFERENCED <=> Consumers(s) # {}

\* C4 amended: after find_matches a sequence whose first match is unknown
\* (no rule matches it) has action ref if and only if such a table consumes
\* it, and stays unknown otherwise; any other sequence keeps its first action.
UnmatchedSequenceRefIffConsumed ==
    AfterFindMatches =>
        \A s \in SequenceOids :
            IF InitialAction(s) = ACTION_UNKNOWN
            THEN /\ matches[s].action = ACTION_REFERENCED <=> Consumers(s) # {}
                 /\ matches[s].action \in {ACTION_REFERENCED, ACTION_UNKNOWN}
            ELSE matches[s].action = InitialAction(s)

\* C4 witness: an unmatched sequence is ref on account of one table only,
\* the other table consuming it omitting or replacing the column
SequenceRefByOneConsumer ==
    /\ AfterFindMatches
    /\ \E s \in SequenceOids :
          /\ InitialAction(s) = ACTION_UNKNOWN
          /\ matches[s].action = ACTION_REFERENCED
          /\ Cardinality(Consumers(s)) = 1
          /\ \E d \in DOMAIN db.seq_deps :
                /\ db.seq_deps[d].seq_oid = s
                /\ Active(db.seq_deps[d].table_oid)
                /\ d \notin Consumers(s)

\* C5: skip and error are terminal in the propagation along foreign keys.
\* A table whose first match is skip or error keeps that action through
\* Pass A, its referenced_by stays empty and the walker never explores its
\* foreign keys; a table promoted from unknown to ref is referred to by a
\* table with action dump or ref that the walker explored.
SkipAndErrorTerminal ==
    AfterPassA =>
        /\ \A t \in TableOids :
              InitialAction(t) \in {ACTION_SKIP, ACTION_ERROR} =>
                  /\ matches[t].action = InitialAction(t)
                  /\ matches[t].referenced_by = <<>>
                  /\ t \notin walked
        /\ \A f \in TableOids :
              (InitialAction(f) = ACTION_UNKNOWN /\ matches[f].action # ACTION_UNKNOWN) =>
                  \E k \in FkeyIds :
                      /\ Fkey(k).ftable_oid = f
                      /\ Fkey(k).table_oid \in walked
                      /\ InitialAction(Fkey(k).table_oid)
                            \notin {ACTION_SKIP, ACTION_ERROR}

\* C5 witness: a dumped table refers to a table with a skip or error rule,
\* which refers to an unmatched table that stays unknown
WalkStoppedAtTerminal ==
    /\ AfterPassA
    /\ \E j, k \in FkeyIds :
          /\ Fkey(j).ftable_oid = Fkey(k).table_oid
          /\ matches[Fkey(j).table_oid].action = ACTION_DUMP
          /\ matches[Fkey(k).table_oid].action \in {ACTION_SKIP, ACTION_ERROR}
          /\ matches[Fkey(k).ftable_oid].action = ACTION_UNKNOWN

\* the foreign keys to table f from tables with action dump or ref
ActiveReferrers(f) ==
    {k \in FkeyIds : Fkey(k).ftable_oid = f /\ Active(Fkey(k).table_oid)}

Emitting == pc \in {"apply_actions", "done"} \/ (pc = "failed" /\ objs # <<>>)
DumpOps == {"dump_table", "dump_sequence", "dump_materialized_view"}
\* tables and partitioned tables, then sequences, then materialized views
KindRank(o) ==
    CASE Obj(o).kind \in {KIND_TABLE, KIND_PART_TABLE} -> 1
      [] Obj(o).kind = KIND_SEQUENCE -> 2
      [] Obj(o).kind = KIND_MATVIEW -> 3
\* the position of object o in the order of dispatch
Position(o) == CHOOSE a \in DOMAIN objs : objs[a] = o

\* C7: during emission the objects are dispatched tables first (partitioned
\* tables included), then sequences, then materialized views, and in the
\* iteration order of the database within each kind; the writer is called
\* in the order of dispatch, so no table is copied after a sequence is read.
DispatchOrder ==
    Emitting =>
        /\ Len(objs) = Cardinality(Oids)
        /\ Range(objs) = Oids
        /\ \A a, b \in DOMAIN objs :
              a < b => /\ KindRank(objs[a]) <= KindRank(objs[b])
                       /\ KindRank(objs[a]) = KindRank(objs[b]) => objs[a] < objs[b]
        /\ \A a, b \in DOMAIN wlog :
              (a < b /\ wlog[a].op \in DumpOps /\ wlog[b].op \in DumpOps) =>
                  /\ Position(wlog[a].oid) < Position(wlog[b].oid)
                  /\ Position(wlog[b].oid) < i
                  /\ ~(wlog[a].op = "dump_sequence" /\ wlog[b].op = "dump_table")

\* C7 witness: a table, a sequence that precedes it in the iteration order
\* and a materialized view have been dumped
AllKindsDumped ==
    /\ pc = "done"
    /\ \E a, b, c \in DOMAIN wlog :
          /\ wlog[a].op = "dump_table"
          /\ wlog[b].op = "dump_sequence"
          /\ wlog[c].op = "dump_materialized_view"
          /\ wlog[b].oid < wlog[a].oid

\* C8: in every successful run the writer is called in the order
\* begin_dump, then dump_table / dump_sequence / dump_materialized_view
\* only, then end_dump, then close.
WriterLifecycle ==
    pc = "done" =>
        /\ Len(wlog) >= 3
        /\ wlog[1].op = "begin_dump"
        /\ \A k \in 2 .. (Len(wlog) - 2) : wlog[k].op \in DumpOps
        /\ wlog[Len(wlog) - 1].op = "end_dump"
        /\ wlog[Len(wlog)].op = "close"

\* C9: when emission ends the dump operation of the writer has been called
\* exactly once for every object whose final action is dump or ref, and
\* never for an object whose final action is unknown or skip.
HandedToWriterIffActive ==
    (pc = "done" \/ (pc = "failed" /\ objs # <<>>)) =>
        \A o \in Oids :
            Cardinality({k \in DOMAIN wlog : wlog[k].op \in DumpOps /\ wlog[k].oid = o})
                = IF Active(o) THEN 1 ELSE 0

\* C10: when a match carries errors after planning, report_errors raises
\* DumpError before any writer operation; the writer is called, and the
\* emission reached, only when no match carries an error.
ErrorsAbortBeforeEmission ==
    /\ []((Planned \/ wlog # <<>>) =>
              \A o \in DOMAIN matches : matches[o].errors = <<>>)
    /\ [][(pc = "report_errors" /\ \E o \in Oids : matches[o].errors # <<>>) =>
              (pc' = "failed" /\ err' = "DumpError" /\ wlog' = <<>>)]_vars

\* C10 witness: the plan failed with DumpError on the errors of two objects,
\* the writer never called
FailedOnCollectedErrors ==
    /\ pc = "failed"
    /\ err = "DumpError"
    /\ wlog = <<>>
    /\ \E o, p \in Oids : o # p /\ matches[o].errors # <<>> /\ matches[p].errors # <<>>

\* the planning errors of object o: its best rule is an error rule, two
\* rules of top score match it, or the rule matched to it names a column of
\* no_columns or replace that the table does not have
AmbiguousMatch(o) == get_match(Obj(o)).raised # None
BadColumns(o) ==
    IF ~IsTable(Obj(o)) THEN {}
    ELSE {c \in Range(get_match(Obj(o)).match.no_columns)
                \cup ReplaceKeys(get_match(Obj(o)).match.replace) :
             get_column(o, c) = None}
HasPlanningError(o) ==
    \/ AmbiguousMatch(o)
    \/ InitialAction(o) = ACTION_ERROR
    \/ (Active(o) /\ BadColumns(o) # {})
\* plan_dump has raised
PlanFailed == pc = "failed" /\ objs = <<>>

\* C11: planning never aborts on the first error.  When plan_dump fails it
\* fails in report_errors with DumpError, every object has its match, and
\* every object with a planning error (an error rule, an ambiguous match, a
\* bad column of no_columns or replace) carries it in the errors of its match.
ErrorsCollectedNotRaised ==
    PlanFailed =>
        /\ err = "DumpError"
        /\ DOMAIN matches = Oids
        /\ \A o \in Oids : HasPlanningError(o) => matches[o].errors # <<>>


\* the largest number of a non-empty set of numbers
MaxOf(S) == CHOOSE x \in S : \A y \in S : y <= x
\* the table a select reads, and the condition on its rows
QueryTable(q) ==
    IF q.from_.source.node = "RecursiveCTE"
    THEN q.from_.source.base_query.from_.source.oid
    ELSE q.from_.source.oid
QueryWhere(q) ==
    IF q.from_.source.node = "RecursiveCTE"
    THEN q.from_.source.base_query.where
    ELSE q.where
\* the depth of the nesting of EXISTS subqueries in a condition
RECURSIVE ExistsDepth(_)
ExistsDepth(c) ==
    CASE c.node \in {"And", "Or"} ->
            MaxOf({0} \cup {ExistsDepth(c.conds[k]) : k \in DOMAIN c.conds})
      [] c.node = "Exists" -> 1 + ExistsDepth(QueryWhere(c.query))
      [] OTHER -> 0
\* no EXISTS subquery of the condition reads a table of path, nor a table
\* of a subquery it is nested in
RECURSIVE OffPath(_, _)
OffPath(c, path) ==
    CASE c.node \in {"And", "Or"} -> \A k \in DOMAIN c.conds : OffPath(c.conds[k], path)
      [] c.node = "Exists" ->
            /\ QueryTable(c.query) \notin path
            /\ OffPath(QueryWhere(c.query), path \cup {QueryTable(c.query)})
      [] OTHER -> TRUE
\* the step of plan_dump the run is at returns or raises: the recursion of
\* the walker, of the sequence pass and of the query planner comes to an end
\* with a result for every object
StepEnds ==
    CASE pc = "find_matches" ->
            /\ DOMAIN MatchLoop(DbIter, matches_clear(matches)).m \subseteq Oids
            /\ MatchLoop(DbIter, matches_clear(matches)).raised \in {None, "ConfigError"}
      [] pc = "pass_a" ->
            DOMAIN PassA(DbIter, [m |-> matches, walked |-> {}, walks |-> <<>>]).m = Oids
      [] pc = "pass_b" -> DOMAIN PassB(DbIter, matches) = Oids
      [] pc = "generate_statements" ->
            /\ DOMAIN generate_statements(DbIter, matches).m = Oids
            /\ generate_statements(DbIter, matches).raised \in {None, "AttributeError"}
      [] pc = "report_errors" -> has_errors \in BOOLEAN
      [] OTHER -> TRUE
\* the tables whose match holds a select query
Queried == {t \in DOMAIN matches : matches[t].query # NoNode}

\* C12: plan_dump terminates on every schema graph, foreign-key cycles and
\* self-referential keys included.  Every step of the planning has an
\* outcome; each top-level call of the Pass A walker explores a table at
\* most once; in every query no EXISTS subquery reads a table of a query it
\* is nested in, and the depth of nesting never exceeds the number of tables.
PlanTerminates ==
    /\ StepEnds
    /\ \A w \in DOMAIN walks : Len(walks[w]) = Cardinality(Range(walks[w]))
    /\ \A t \in Queried :
          /\ QueryTable(matches[t].query) = t
          /\ OffPath(QueryWhere(matches[t].query), {t})
          /\ ExistsDepth(QueryWhere(matches[t].query)) <= Cardinality(TableOids)

\* C12 witness: the plan of three tables in a cycle of foreign keys is made,
\* the walker having explored the three tables in one call and the query of
\* a table nesting two EXISTS subqueries
CyclePlanned ==
    /\ Planned
    /\ \E j, k, l \in FkeyIds :
          /\ Fkey(j).ftable_oid = Fkey(k).table_oid
          /\ Fkey(k).ftable_oid = Fkey(l).table_oid
          /\ Fkey(l).ftable_oid = Fkey(j).table_oid
          /\ Cardinality({Fkey(j).table_oid, Fkey(k).table_oid, Fkey(l).table_oid}) = 3
    /\ \E w \in DOMAIN walks : Len(walks[w]) = 3
    /\ \E t \in Queried : ExistsDepth(QueryWhere(matches[t].query)) = 2

\* a second witness of termination: a table with a self-referential key in a
\* cycle of two tables
SelfAndCyclePlanned ==
    /\ Planned
    /\ \E j, k, l \in FkeyIds :
          /\ Fkey(j).table_oid = Fkey(j).ftable_oid
          /\ Fkey(k).table_oid = Fkey(j).table_oid
          /\ Fkey(l).ftable_oid = Fkey(j).table_oid
          /\ Fkey(l).table_oid = Fkey(k).ftable_oid
          /\ Fkey(k).ftable_oid # Fkey(j).table_oid
          /\ Active(Fkey(k).table_oid) /\ Active(Fkey(k).ftable_oid)


\* plan_dump has returned or raised
PlanEnded == pc = "run_dump" \/ PlanFailed

MatchEnded == pc = "pass_a" \/ PlanFailed

\* C14: the matching does not depend on the order of the rules.  When the
\* rules are given in another order, the first loop of find_matches ends as
\* it did before: every object has the same match (action, no_columns,
\* replace, filter), or it raises the ambiguous-match ConfigError on the
\* same object in both orders.
RuleOrderIrrelevant ==
    MatchEnded =>
        \A k \in DOMAIN plans :
            /\ Range(rules) = Range(plans[k].rules)
            /\ pc = plans[k].pc
            /\ err = plans[k].err
            /\ err \in {None, "ConfigError"}
            /\ DOMAIN matches = DOMAIN plans[k].matches
            /\ \A o \in DOMAIN matches :
                  /\ matches[o].action = plans[k].matches[o].action
                  /\ matches[o].no_columns = plans[k].matches[o].no_columns
                  /\ matches[o].replace = plans[k].matches[o].replace
                  /\ matches[o].filter = plans[k].matches[o].filter

\* C14 witness: three rules matching the table given in two orders, the rule
\* of top score first in one order and last in the other, both matchings done
ReorderedThreeRulesMatched ==
    /\ pc = "pass_a"
    /\ Len(plans) = 1
    /\ Len(rules) = 3
    /\ Cardinality(Matching(1)) = 3
    /\ TopRules(1) = {3}
    /\ plans[1].rules[1] = rules[3]
    /\ matches[1].filter = rules[3].filter

\* a second witness: both orders end with the ambiguous-match ConfigError
ReorderedBothAmbiguous ==
    /\ PlanFailed
    /\ Len(plans) = 1
    /\ plans[1].rules # rules
    /\ plans[1].err = "ConfigError"


\* the tables whose match holds an import statement
WithImportStatement == {t \in DOMAIN matches : matches[t].import_statement # NoNode}
\* the position of a column in the definition of its table
ColumnIndex(t, c) == CHOOSE k \in DOMAIN Obj(t).columns : Obj(t).columns[k] = c

AfterGenerate ==
    \/ pc \in {"report_errors", "run_dump", "apply_actions", "done"}
    \/ (pc = "failed" /\ err = "DumpError")
\* the columns named by the match of table t that the table does not have
MissingColumns(t) ==
    {c \in Range(matches[t].no_columns) \cup ReplaceKeys(matches[t].replace) :
        get_column(t, c) = None}

\* C16: after planning, for every table, whatever the action of the rule
\* matched to it, every column named in no_columns or as a key of replace
\* exists in the table, or an error naming the column is recorded on the
\* match of the table.
BadColumnsRecorded ==
    AfterGenerate =>
        \A t \in TableOids :
            \A c \in MissingColumns(t) :
                \E k \in DOMAIN matches[t].errors : matches[t].errors[k][2] = c


\* the match of table t asks for nothing but the rows of the table: action
\* dump, no replace, no filter, no extension condition
PlainDump(t) ==
    /\ matches[t].action = ACTION_DUMP
    /\ matches[t].replace = <<>>
    /\ ~Truthy(matches[t].filter)
    /\ ~Truthy(Obj(t).extcondition)
\* the foreign keys referring to table t, and those of other tables
InboundKeys(t) == {k \in FkeyIds : Fkey(k).ftable_oid = t}
InboundKeysOfOthers(t) == {k \in InboundKeys(t) : Fkey(k).table_oid # t}
\* the copy statement of table t is "copy <table> (<cols>) to stdout", or
\* "copy (<query>) to stdout" of the query of its match
PlainCopy(t) ==
    /\ matches[t].copy_statement.node = "CopyTable"
    /\ matches[t].copy_statement.table = t
    /\ matches[t].query = NoNode
QueryCopy(t) ==
    /\ matches[t].query # NoNode
    /\ matches[t].copy_statement = CopyOut(matches[t].query)
    /\ QueryTable(matches[t].query) = t

\* C17: the export statement of a table is the plain copy of the
\* table exactly when its final action is dump and none of replace, filter,
\* extcondition or a foreign key from another table applies; in every other
\* case it is the copy of the query built by the planner.
FastPathIffNoReferenceFromOthers ==
    Planned =>
        \A t \in ActiveTables :
            IF PlainDump(t) /\ InboundKeysOfOthers(t) = {}
            THEN PlainCopy(t) ELSE QueryCopy(t)

\* the fast path as set_copy_statement takes it: the plain copy exactly when
\* the action is dump and none of replace, filter, extcondition or a foreign
\* key referring to the table applies, be it a key of the table itself or of
\* a table that is not dumped
FastPathIffNoInboundKey ==
    Planned =>
        \A t \in ActiveTables :
            IF PlainDump(t) /\ InboundKeys(t) = {}
            THEN PlainCopy(t) ELSE QueryCopy(t)

\* C18: a table whose final action is dump and whose rule sets no filter
\* and no replace is exported without a select query: the query of its
\* match stays unset after planning, even when a dumped table refers to it.
UnfilteredDumpHasNoQuery ==
    Planned =>
        \A t \in TableOids :
            (/\ matches[t].action = ACTION_DUMP
             /\ ~Truthy(matches[t].filter)
             /\ matches[t].replace = <<>>) => matches[t].query = NoNode


\* the rows of table t that the filter of its rule and its extension
\* condition allow: every row when neither is set (a plan is never made for
\* a table with an extension condition)
Allowed(t) == IF Truthy(matches[t].filter) THEN data.flt[t] ELSE Rows

\* C19: for a table whose final action is dump, every row that satisfies
\* the filter of the rule and the extension condition (every row, when
\* neither is set) is exported, whether or not other dumped or referenced
\* tables refer to the table through foreign keys.
DumpExportsAllowedRows ==
    Planned =>
        \A t \in DumpTables : Allowed(t) \subseteq Exported(t)


\* the tables whose final action is ref
RefTables == {t \in TableOids : matches[t].action = ACTION_REFERENCED}
\* the rows of table t that an exported row of another table refers to
\* through a foreign key of the referrers list of t
DirectlyRequired(t) ==
    {r \in Rows :
        \E k \in Range(matches[t].referenced_by) :
            /\ Fkey(k).table_oid # t
            /\ \E r2 \in Exported(Fkey(k).table_oid) : data.fk[k][r2] = r}
\* the rows of S and their ancestors along the self-referential keys of t
RECURSIVE WithAncestors(_, _)
WithAncestors(t, S) ==
    IF \A r \in Rows :
          (\E k \in Range(matches[t].referenced_by) :
              Fkey(k).table_oid = t /\ \E r2 \in S : data.fk[k][r2] = r) => r \in S
    THEN S
    ELSE WithAncestors(
             t, S \cup {r \in Rows :
                           \E k \in Range(matches[t].referenced_by) :
                               Fkey(k).table_oid = t /\ \E r2 \in S : data.fk[k][r2] = r})

\* C20: for a table whose final action is ref, only rows required by other
\* exported rows are exported: every exported row is referred to, through a
\* foreign key of the referrers list, by an exported row of the referring
\* table, or is an ancestor of such a row along a self-referential key; a
\* ref table with no referrers exports no row.
RefExportsOnlyRequiredRows ==
    Planned =>
        \A t \in RefTables : Exported(t) \subseteq WithAncestors(t, DirectlyRequired(t))


\* the foreign keys of table t to itself in the referrers list of its match
SelfKeys(t) == {k \in Range(matches[t].referenced_by) : Fkey(k).table_oid = t}
\* the rows of S and the rows referred to, through a self-referential key of
\* t, by a row already in the set
RECURSIVE AncestorsOf(_, _)
AncestorsOf(t, S) ==
    IF {data.fk[k][r] : k \in SelfKeys(t), r \in S} \subseteq S \cup {0} THEN S
    ELSE AncestorsOf(t, S \cup ({data.fk[k][r] : k \in SelfKeys(t), r \in S} \ {0}))
\* the tables with self-referential keys whose rule is a dump with a filter
FilteredSelfRef ==
    {t \in DumpTables : Truthy(matches[t].filter) /\ SelfKeys(t) # {}}
\* the foreign keys to table t of other tables that are dumped or referenced
ReferrersOfOthers(t) == {k \in ActiveReferrers(t) : Fkey(k).table_oid # t}

\* C21 as stated: for a table with self-referential foreign keys dumped with
\* a filter, the exported rows are exactly the rows matching the filter and
\* their transitive ancestors along any of the self-referential keys; a
\* descendant of those rows is exported only if it is one of them.
SelfRefExportsFilterAndAncestors ==
    Planned =>
        \A t \in FilteredSelfRef : Exported(t) = AncestorsOf(t, data.flt[t])

\* C21 amended: for a table with self-referential foreign keys dumped with
\* a filter, to which no other dumped or referenced table refers, the
\* exported rows are exactly the rows matching the filter and their
\* transitive ancestors along any of the self-referential keys.
SelfRefAloneExportsFilterAndAncestors ==
    Planned =>
        \A t \in FilteredSelfRef :
            ReferrersOfOthers(t) = {} => Exported(t) = AncestorsOf(t, data.flt[t])

\* C21 witness: the row matching the filter has a father, whose mother is a
\* third row, and the three rows are exported
GrandparentExported ==
    /\ Planned
    /\ \E t \in FilteredSelfRef :
          /\ ReferrersOfOthers(t) = {}
          /\ \E r \in data.flt[t], j, k \in SelfKeys(t) :
                /\ j # k
                /\ data.fk[j][r] \notin {0, r}
                /\ data.fk[k][data.fk[j][r]] \notin {0, r, data.fk[j][r]}
                /\ Exported(t) = {r, data.fk[j][r], data.fk[k][data.fk[j][r]]}

\* a second witness: a child of the row matching the filter is left out of
\* the export, the father of that row being exported
ChildNotExported ==
    /\ Planned
    /\ \E t \in FilteredSelfRef :
          /\ ReferrersOfOthers(t) = {}
          /\ \E c \in Rows \ Exported(t), k \in SelfKeys(t) :
                /\ data.fk[k][c] \in data.flt[t]
                /\ data.fk[k][data.fk[k][c]] \in Exported(t) \ data.flt[t]


\* the objects of an extension that gives no dump condition for them
ExtensionOwned == {o \in Oids : Obj(o).extension # None /\ Obj(o).extcondition = None}

\* C22: an object of an extension that has no extension dump condition gets
\* a skip match whatever rules match it (a dump rule, an error rule, two
\* rules of the same score), and keeps it through the planning: the match
\* holds nothing of a rule and no error, and the ambiguous-match ConfigError
\* is never raised on such an object.
ExtensionObjectsSkipped ==
    /\ \A o \in DOMAIN matches \cap ExtensionOwned : matches[o] = RuleMatch(ACTION_SKIP)
    /\ (PlanFailed /\ err = "ConfigError") =>
          Cardinality(DOMAIN matches) + 1 \in Oids \ ExtensionOwned

\* C22 witness: the plan is made with a table of an extension skipped that
\* two rules of the same score match, and a sequence of an extension skipped
\* that an error rule matches
ExtensionSkippedDespiteRules ==
    /\ Planned
    /\ \E o \in ExtensionOwned :
          /\ IsTable(Obj(o))
          /\ Cardinality(TopRules(o)) = 2
          /\ matches[o].action = ACTION_SKIP
    /\ \E o \in ExtensionOwned :
          /\ IsSequence(Obj(o))
          /\ \E k \in TopRules(o) : rules[k].action = ACTION_ERROR
          /\ matches[o].action = ACTION_SKIP


\* the partitioned tables whose final action is dump or ref
ActivePartitioned == {o \in Oids : Obj(o).kind = KIND_PART_TABLE /\ Active(o)}

\* C23: a partitioned table is handled like a table at emission.  When its
\* final action is dump or ref, the orchestrator hands it to the dump_table
\* operation of the writer once its turn has come, and the emission never
\* fails on a partitioned table.
PartitionedDumpedAsTable ==
    Emitting =>
        /\ \A o \in ActivePartitioned :
              Position(o) < i =>
                  \E k \in DOMAIN wlog : wlog[k] = [op |-> "dump_table", oid |-> o]
        /\ pc = "failed" => objs[i] \notin ActivePartitioned


\* the tables whose match holds a copy statement
WithCopyStatement == {t \in DOMAIN matches : matches[t].copy_statement # NoNode}
\* the column list of the copy statement of table t: that of the table
\* copied, or that of the query copied
ExportColumns(t) ==
    IF matches[t].copy_statement.node = "CopyTable"
    THEN matches[t].copy_statement.columns
    ELSE matches[t].copy_statement.source.columns
\* the columns a column list names
NamedColumns(columns) ==
    {columns[k].name : k \in {x \in DOMAIN columns : columns[x].node = "Identifier"}}

\* C24: generated columns are not dumped.  A column with a generated-column
\* expression is named neither in the column list of the export statement
\* nor in the column list of the COPY ... FROM STDIN statement of its table.
GeneratedColumnsNotDumped ==
    /\ \A t \in WithCopyStatement :
          NamedColumns(ExportColumns(t)) \cap Obj(t).generated = {}
    /\ \A t \in WithImportStatement :
          NamedColumns(matches[t].import_statement.columns) \cap Obj(t).generated = {}


\* an extension condition with its leading WHERE keyword removed, on the
\* strings of the model
WithoutLeadingWhere(str) ==
    CASE str = "where x > 1" -> "x > 1"
      [] OTHER -> str
\* the foreign keys of other tables in the referrers list of table t, in
\* the order of the list
OtherKeys(t) ==
    SelectIdx(matches[t].referenced_by, {k \in FkeyIds : Fkey(k).table_oid # t})
\* the EXISTS subqueries of a condition that is one of them or a
\* disjunction holding some
ExistsOf(c) ==
    IF c.node = "Exists" THEN <<c>>
    ELSE IF c.node = "Or"
    THEN SelectIdx(c.conds, {x \in Range(c.conds) : x.node = "Exists"})
    ELSE <<>>
\* the conjunction of conditions, and their disjunction: the one condition
\* when there is one, none when there is none
Conjunction(conds) ==
    IF conds = <<>> THEN NoNode ELSE IF Len(conds) = 1 THEN conds[1] ELSE And(conds)
Disjunction(conds) ==
    IF conds = <<>> THEN NoNode ELSE IF Len(conds) = 1 THEN conds[1] ELSE Or(conds)
\* the conditions table t sets on its own rows: the extension condition and
\* the filter of the rule
OwnConditions(t) ==
    (IF Truthy(Obj(t).extcondition)
     THEN <<SQL(WithoutLeadingWhere(Obj(t).extcondition))>> ELSE <<>>)
    \o (IF Truthy(matches[t].filter) THEN <<SQL(Strip(matches[t].filter))>> ELSE <<>>)
\* the parts of a condition: the operands of a disjunction, the condition
\* itself otherwise
Disjuncts(c) ==
    IF c = NoNode THEN <<>> ELSE IF c.node = "Or" THEN c.conds ELSE <<c>>

Conjuncts(c) == IF c.node = "And" THEN c.conds ELSE <<c>>
\* the foreign keys of the referrers list of table t whose referring table
\* is not on the path, in the order of the list
KeysOffPath(t, path) ==
    SelectIdx(matches[t].referenced_by, {k \in FkeyIds : Fkey(k).table_oid \notin path})

RECURSIVE WhereOf(_, _, _, _)
RECURSIVE ExistsOn(_, _, _, _)
\* the condition c is the WHERE of the select of table t reached along path
\* (t included) under the alias: its own conditions, then one EXISTS
\* subquery per foreign key of KeysOffPath
WhereParts(parts, own, keys, path, alias) ==
    /\ Len(parts) = Len(own) + Len(keys)
    /\ \A k \in DOMAIN own : parts[k] = own[k]
    /\ \A k \in DOMAIN keys : ExistsOn(parts[Len(own) + k], keys[k], path, alias)
WhereOf(c, t, path, alias) ==
    WhereParts(Disjuncts(c), OwnConditions(t), KeysOffPath(t, path), path, alias)
\* the condition e is the EXISTS subquery on foreign key fkey for the parent
\* alias: a select of 1 from the referring table whose WHERE is the FkeyJoin
\* from its alias to the parent, ANDed with the WHERE of the select of the
\* referring table when it has one (a select from a recursive CTE has none,
\* and the WHERE is that of the base query of the CTE)
ExistsOn(e, fkey, path, parent) ==
    /\ e.node = "Exists"
    /\ e.query.columns = <<SQL("1")>>
    /\ QueryTable(e.query) = Fkey(fkey).table_oid
    /\ Conjuncts(e.query.where)[1] = FkeyJoin(fkey, e.query.from_.alias, parent)
    /\ Len(Conjuncts(e.query.where)) \in {1, 2}
    /\ IF e.query.from_.source.node = "RecursiveCTE"
       THEN /\ Len(Conjuncts(e.query.where)) = 1
            /\ WhereOf(e.query.from_.source.base_query.where, Fkey(fkey).table_oid,
                       path \cup {Fkey(fkey).table_oid},
                       e.query.from_.source.base_query.from_.alias)
       ELSE WhereOf(IF Len(Conjuncts(e.query.where)) = 2
                    THEN Conjuncts(e.query.where)[2] ELSE NoNode,
                    Fkey(fkey).table_oid, path \cup {Fkey(fkey).table_oid},
                    e.query.from_.alias)
\* the ref tables with no filter whose match holds a select query
QueriedRefNoFilter ==
    {t \in Queried : matches[t].action = ACTION_REFERENCED /\ ~Truthy(matches[t].filter)}

RECURSIVE StatedWhereOf(_, _, _, _)
RECURSIVE StatedExistsOn(_, _, _, _)
\* WhereOf and ExistsOn with the WHERE of every EXISTS subquery holding the
\* conditions of the referring table, whatever the subquery selects from
StatedWhereParts(parts, own, keys, path, alias) ==
    /\ Len(parts) = Len(own) + Len(keys)
    /\ \A k \in DOMAIN own : parts[k] = own[k]
    /\ \A k \in DOMAIN keys : StatedExistsOn(parts[Len(own) + k], keys[k], path, alias)
StatedWhereOf(c, t, path, alias) ==
    StatedWhereParts(Disjuncts(c), OwnConditions(t), KeysOffPath(t, path), path, alias)
StatedExistsOn(e, fkey, path, parent) ==
    /\ e.node = "Exists"
    /\ e.query.columns = <<SQL("1")>>
    /\ QueryTable(e.query) = Fkey(fkey).table_oid
    /\ Conjuncts(e.query.where)[1] = FkeyJoin(fkey, e.query.from_.alias, parent)
    /\ Len(Conjuncts(e.query.where)) \in {1, 2}
    /\ StatedWhereOf(IF Len(Conjuncts(e.query.where)) = 2
                     THEN Conjuncts(e.query.where)[2] ELSE NoNode,
                     Fkey(fkey).table_oid, path \cup {Fkey(fkey).table_oid},
                     e.query.from_.alias)

\* C26 as stated: for a ref table with no filter, the planned WHERE holds
\* exactly one EXISTS per foreign key of the referrers list that is not
\* self-referential and whose referring table is not on the current path
\* (one EXISTS as is, an OR of several); the WHERE of each EXISTS subquery is
\* the FkeyJoin on that key, from the alias of the referrer to the alias of
\* the parent, first, ANDed with the own WHERE of the referring table: its
\* filter and, recursively, its own EXISTS subqueries.
ExistsPerReferrerWithItsWhere ==
    \A t \in QueriedRefNoFilter :
        /\ StatedWhereOf(QueryWhere(matches[t].query), t, {t}, <<"t", 0>>)
        /\ \A k \in DOMAIN Disjuncts(QueryWhere(matches[t].query)) :
              Disjuncts(QueryWhere(matches[t].query))[k].node = "Exists"
        /\ Len(KeysOffPath(t, {t})) >= 2 => QueryWhere(matches[t].query).node = "Or"

\* C26 amended: as stated, but when the referring table has self-referential
\* keys in its referrers list the EXISTS subquery selects from the recursive
\* CTE of that table and its WHERE is the FkeyJoin alone: the filter and the
\* EXISTS subqueries of the referring table are the WHERE of the base query
\* of the CTE.
ExistsPerReferrer ==
    \A t \in QueriedRefNoFilter :
        /\ WhereOf(QueryWhere(matches[t].query), t, {t}, <<"t", 0>>)
        /\ \A k \in DOMAIN Disjuncts(QueryWhere(matches[t].query)) :
              Disjuncts(QueryWhere(matches[t].query))[k].node = "Exists"
        /\ Len(KeysOffPath(t, {t})) >= 2 => QueryWhere(matches[t].query).node = "Or"

\* C26 witness: the plan of test_two_dependencies: a ref table whose WHERE
\* is the OR of two EXISTS, one of them on a table dumped with a filter, the
\* WHERE of that subquery being the FkeyJoin ANDed with the filter
TwoReferrersPlanned ==
    /\ Planned
    /\ \E t \in QueriedRefNoFilter :
          /\ QueryWhere(matches[t].query).node = "Or"
          /\ Len(QueryWhere(matches[t].query).conds) = 2
          /\ \E k \in 1 .. 2 :
                /\ QueryWhere(matches[t].query).conds[k].node = "Exists"
                /\ QueryWhere(matches[t].query).conds[k].query.where.node = "And"
                /\ QueryWhere(matches[t].query).conds[k].query.where.conds[1].node
                      = "FkeyJoin"
                /\ QueryWhere(matches[t].query).conds[k].query.where.conds[2].node = "SQL"

\* a second witness, the plan of test_subqueries: a ref table whose EXISTS
\* subquery on a ref table holds the EXISTS subquery on a table dumped with a
\* filter
NestedReferrersPlanned ==
    /\ Planned
    /\ \E t \in QueriedRefNoFilter :
          /\ QueryWhere(matches[t].query).node = "Exists"
          /\ QueryWhere(matches[t].query).query.where.node = "And"
          /\ QueryWhere(matches[t].query).query.where.conds[2].node = "Exists"
          /\ QueryWhere(matches[t].query).query.where.conds[2].query.where.node = "And"
          /\ QueryWhere(matches[t].query).query.where.conds[2].query.where.conds[2].node
                = "SQL"


\* the tables with no column
EmptyTables == {t \in TableOids : Obj(t).columns = <<>>}

\* C27: a table with zero columns whose action is dump or ref after the
\* propagation is forced to skip by the statement generator: when
\* generate_statements returns, its match has action skip, no export
\* statement, no import statement and no error; a table with zero columns
\* never has a statement and is never handed to the writer.
EmptyTableSkipped ==
    /\ [](\A t \in EmptyTables \cap DOMAIN matches :
              /\ matches[t].query = NoNode
              /\ matches[t].copy_statement = NoNode
              /\ matches[t].import_statement = NoNode
              /\ \A k \in DOMAIN wlog : wlog[k].oid # t)
    /\ [][(pc = "generate_statements" /\ pc' = "report_errors") =>
              \A t \in EmptyTables :
                  Active(t) =>
                      /\ matches'[t].action = ACTION_SKIP
                      /\ matches'[t].errors = <<>>
                      /\ matches'[t] = [matches[t] EXCEPT !.action = ACTION_SKIP]]_vars

\* C27 witness: the dump is done, a table with zero columns that a dump rule
\* matches having been skipped and another table handed to the writer
EmptyTableSkippedInDump ==
    /\ pc = "done"
    /\ \E t \in EmptyTables :
          /\ InitialAction(t) = ACTION_DUMP
          /\ matches[t].action = ACTION_SKIP
          /\ \E k \in DOMAIN wlog : wlog[k].op = "dump_table"


\* the conditions a WHERE holds at its top: its disjuncts and their conjuncts
TopConditions(c) ==
    Range(Disjuncts(c)) \cup UNION {Range(Conjuncts(d)) : d \in Range(Disjuncts(c))}
\* the tables with a non-empty extension dump condition
WithExtCondition == {t \in TableOids : Truthy(Obj(t).extcondition)}

\* C28: for a table with a non-empty extension dump condition and final
\* action dump or ref, statement generation completes without an unexpected
\* failure, and the WHERE of the export query holds the condition with its
\* leading WHERE keyword removed.
ExtConditionInWhere ==
    /\ err \in {None, "ConfigError", "DumpError"}
    /\ AfterGenerate =>
          \A t \in WithExtCondition \cap ActiveTables :
              matches[t].errors = <<>> =>
                  /\ QueryCopy(t)
                  /\ SQL(WithoutLeadingWhere(Obj(t).extcondition))
                        \in TopConditions(QueryWhere(matches[t].query))


RECURSIVE ProperCondition(_)
RECURSIVE ProperQuery(_)
\* every And and Or node of the condition has at least two operands, none
\* of them null, in the subqueries of the condition as well
ProperCondition(c) ==
    CASE c.node \in {"And", "Or"} ->
            /\ Len(c.conds) >= 2
            /\ \A k \in DOMAIN c.conds :
                  c.conds[k] # NoNode /\ ProperCondition(c.conds[k])
      [] c.node = "Exists" -> ProperQuery(c.query)
      [] OTHER -> TRUE
\* the conditions of a select are proper: its WHERE and, when it reads from
\* a recursive CTE, the base query and the join condition of the CTE
ProperQuery(q) ==
    /\ ProperCondition(q.where)
    /\ q.from_.source.node = "RecursiveCTE" =>
          /\ ProperQuery(q.from_.source.base_query)
          /\ q.from_.source.rec_cond # NoNode
          /\ ProperCondition(q.from_.source.rec_cond)

\* C29: in every query tree the planner produces, trees with cycle-broken
\* branches and recursive CTEs included, every And and Or node has at least
\* two operands and no operand is null: no condition gives no WHERE and a
\* single condition is used as is.
NoDegenerateOperator ==
    \A t \in Queried :
        /\ ProperQuery(matches[t].query)
        /\ matches[t].copy_statement = CopyOut(matches[t].query)

\* C29 witness: the plan holds a select whose WHERE is the OR of two
\* conditions, one of them an EXISTS subquery whose WHERE is an And
AndInOrPlanned ==
    /\ Planned
    /\ \E t \in Queried :
          /\ QueryWhere(matches[t].query).node = "Or"
          /\ \E k \in DOMAIN QueryWhere(matches[t].query).conds :
                /\ QueryWhere(matches[t].query).conds[k].node = "Exists"
                /\ QueryWhere(matches[t].query).conds[k].query.where.node = "And"

\* a second witness: the select of a table in a cycle of foreign keys reads
\* from a recursive CTE, the branch of the cycle being left out of an EXISTS
\* subquery whose WHERE is the FkeyJoin alone
CycleBrokenInCtePlanned ==
    /\ Planned
    /\ \E t \in Queried :
          /\ matches[t].query.from_.source.node = "RecursiveCTE"
          /\ QueryWhere(matches[t].query).node = "Exists"
          /\ QueryWhere(matches[t].query).query.where.node = "FkeyJoin"
          /\ matches[QueryTable(QueryWhere(matches[t].query).query)].referenced_by # <<>>


\* the tables a rule gives action dump or ref
RuleActive == {t \in TableOids : InitialAction(t) \in {ACTION_DUMP, ACTION_REFERENCED}}
\* the tables reachable from a table of RuleActive by a non-empty path of
\* foreign keys on which every table before the last has action dump or ref
PromotedByPath == Reachable(RuleActive, ActiveTables)

\* C30: exact characterisation of promotion.  After Pass A a table no rule
\* matched has action ref if and only if it is reachable from a table whose
\* rule action is dump or ref by a non-empty path of foreign keys on which
\* every table before it has action dump or ref; any other unmatched table
\* stays unknown with an empty referenced_by, and a table whose rule action
\* is dump is never demoted to ref.
\* (Stated of find_matches up to its return: make_statements later gives
\* a table none of whose columns is dumped the action skip.)
PromotedIffReachable ==
    pc \in {"pass_b", "generate_statements"} =>
        \A t \in TableOids :
            /\ InitialAction(t) = ACTION_UNKNOWN =>
                  IF t \in PromotedByPath
                  THEN matches[t].action = ACTION_REFERENCED
                  ELSE /\ matches[t].action = ACTION_UNKNOWN
                       /\ matches[t].referenced_by = <<>>
            /\ InitialAction(t) = ACTION_DUMP => matches[t].action = ACTION_DUMP

\* C30 witness: no table has a dump rule; a table with a ref rule refers to
\* an unmatched table, now ref, while an unmatched table referring to itself
\* stays unknown
PromotedFromRefRuleOnly ==
    /\ pc = "pass_b"
    /\ \E j, k \in FkeyIds :
          /\ InitialAction(Fkey(j).table_oid) = ACTION_REFERENCED
          /\ InitialAction(Fkey(j).ftable_oid) = ACTION_UNKNOWN
          /\ matches[Fkey(j).ftable_oid].action = ACTION_REFERENCED
          /\ \A t \in TableOids : InitialAction(t) # ACTION_DUMP
          /\ Fkey(k).table_oid = Fkey(k).ftable_oid
          /\ InitialAction(Fkey(k).table_oid) = ACTION_UNKNOWN
          /\ matches[Fkey(k).table_oid].action = ACTION_UNKNOWN

\* a second witness: an unmatched table a dumped table reaches only through
\* a table with a skip or error rule stays unknown, and a table with a dump
\* rule that a table with action dump or ref refers to still has action dump
UnknownBehindTerminalAndDumpKept ==
    /\ pc = "pass_b"
    /\ \E j, k \in FkeyIds :
          /\ Fkey(j).ftable_oid = Fkey(k).table_oid
          /\ InitialAction(Fkey(j).table_oid) = ACTION_DUMP
          /\ InitialAction(Fkey(k).table_oid) \in {ACTION_SKIP, ACTION_ERROR}
          /\ InitialAction(Fkey(k).ftable_oid) = ACTION_UNKNOWN
          /\ matches[Fkey(k).ftable_oid].action = ACTION_UNKNOWN
    /\ \E x \in FkeyIds :
          /\ Active(Fkey(x).table_oid)
          /\ InitialAction(Fkey(x).ftable_oid) = ACTION_DUMP
          /\ matches[Fkey(x).ftable_oid].referenced_by # <<>>


=============================================================================
